---- MODULE Spec2Model ----
(***************************************************************************)
(* Model of the moderation core of the ALL-STAR bot: the command           *)
(* dispatcher (CommandManager.execute) with its middleware chain           *)
(* (AuthMiddleware, CooldownMiddleware, ValidationMiddleware), the         *)
(* moderation store (Database) and the defense engine with its detection   *)
(* modules.  Time is the value of Date.now() in milliseconds.              *)
(***************************************************************************)
EXTENDS Integers, Sequences, FiniteSets, TLC

(***************************************************************************)
(* Bounds of the model (not program constants).                            *)
(***************************************************************************)
MaxTime == 20000
MaxRateTime == 60000
MaxRateUsage == 2
MaxRateErrors == 10
MaxViolations == 3
MaxTracked == 2
MaxUsage == 2
MaxErrors == 2

(***************************************************************************)
(* Program constants.                                                      *)
(***************************************************************************)
cooldownCommand == 20
timeWindow == 60000
maxRequests == 10
maxWarn == 3
maxMessageLength == 250
repeatedCharThreshold == 50
emojiThreshold == 30
invisibleCharThreshold == 20
antiSpamTime == 10
messageThreshold == 5
duplicateThreshold == 3
characterFloodThreshold == 10

(***************************************************************************)
(* Identities.  "a" is the configured author number (users.authors of the  *)
(* default data); no command adds or removes an author.                    *)
(***************************************************************************)
Users == {"a", "u1", "u2"}
authors == {"a"}
Members == Users \ authors
Groups == {"g1"}
Modes == {"NORMAL", "STRICT", "LOCKDOWN"}

VARIABLES
    owners,           \* users.owners
    blacklisted,      \* users.blacklisted
    disabled,         \* users.disabled
    botMode,          \* config.botMode: "PUBLIC" or "SELF"
    cooldowns,        \* users.cooldowns: [user -> [command -> expiry, 0 = absent]]
    globalCooldowns,  \* CooldownMiddleware.globalCooldowns: [user -> Seq(time)]
    commandUsage,     \* statistics.commands: [command -> count]
    errorLog,         \* length of system.errorLog
    defenseMode,      \* config.defenseMode (global)
    groupMode,        \* groups.settings[g].defenseMode
    now,              \* Date.now()
    inserted,         \* history: every timestamp pushed into globalCooldowns[u]
    warned,           \* users.warned: [user -> count, 0 = absent]
    muted,            \* users.muted: [user -> until, 0 = absent]
    protected,        \* groups.protected
    enabled,          \* groups.settings[g]: [module -> flag]
    violations,       \* statistics.violations: [module -> count]
    messageTracker,   \* AntiSpam.messageTracker: [user -> Seq([timestamp, content])]
    tracked,          \* history: timestamps pushed into messageTracker[u] since it was last deleted
    lastIndex,        \* lastIndex of the four AntiVirtex.virtexPatterns (global regexes)
    maxLength,        \* AntiVirtex.settings.maxLength, read from the configuration at construction
    commands,         \* CommandManager.commands: [name -> stored command, NoCommand = absent]
    aliases,          \* CommandManager.aliases: [name -> command name, "none" = absent]
    declared,         \* history: [name -> aliases given with the last registration of name]
    pending,          \* the asynchronous calls in flight: [task -> position and locals]
    kicked,           \* history: [user -> kickParticipant calls made by the calls in flight]
    warnEvents,       \* history: [user -> addWarn calls made by the calls in flight]
    broadcasting,     \* BroadcastService.broadcasting
    lastV,            \* outcome of the defense engine (checkMessage, checkNewMember) when it was the last step
    last              \* outcome of CommandManager.execute when it was the last step

vars == <<owners, blacklisted, disabled, botMode, cooldowns, globalCooldowns,
          commandUsage, errorLog, defenseMode, groupMode, now, inserted, warned,
          muted, protected, enabled, violations, messageTracker, tracked, lastIndex,
          maxLength, commands, aliases, declared,
          pending, kicked, warnEvents, broadcasting, lastV, last>>

\* the state of the moderation side
defenseState == <<warned, muted, protected, enabled, violations, messageTracker, tracked, lastIndex, maxLength, commands, aliases, declared, pending, kicked, warnEvents, broadcasting>>

\* the slots of the calls in flight, and a free slot
Tasks == {1, 2, 3}

Idle == [kind |-> "idle", pc |-> "done", user |-> "", cmd |-> "", at |-> 0,
         count |-> 0, todo |-> <<>>]

NoLast == [user |-> "", cmd |-> "", steps |-> <<>>, sent |-> <<>>,
           result |-> FALSE, remaining |-> 0]

NoLastV == [user |-> "", msg |-> "", ran |-> <<>>, severity |-> "none", mode |-> "none",
            action |-> "none", deleted |-> FALSE, kicks |-> 0, warnCount |-> 0,
            notice |-> FALSE, blocked |-> FALSE, country |-> "none", welcomed |-> FALSE,
            checked |-> FALSE]

\* variant: the link module is registered ahead of the others
ModuleOrderLinkFirst == <<"antiLink", "antiVirtex", "antiToxic", "antiSpam">>

\* DefenseEngine.modules after the sort by priority (the message modules)
ModuleOrder == <<"antiVirtex", "antiToxic", "antiLink", "antiSpam">>
ModuleNames == {ModuleOrder[i] : i \in 1..Len(ModuleOrder)}

\* the flags of Database.getDefaultGroupSettings and the violation counters
SettingNames == ModuleNames \cup {"geoRestriction", "welcome"}
ViolationTypes == ModuleNames \cup {"geoRestriction"}

(***************************************************************************)
(* Command registry.                                                       *)
(***************************************************************************)
Commands == {"ping", "ai", "info-grup", "defense", "download-music"}

\* role given by registerCommandModule: the module's default role
commandRole(c) ==
    CASE c = "defense" -> "author"
      [] c = "info-grup" -> "owner"
      [] OTHER -> "user"

\* CommandManager.aliases
aliasNames == {"groupinfo", "infogrup", "dlmusic", "music"}
aliasOf(n) == IF n \in {"dlmusic", "music"} THEN "download-music" ELSE "info-grup"

\* names a message can carry after the prefix
CommandNames == Commands \cup aliasNames \cup {"nope"}

\* variant: a name is never looked up among the aliases
resolveNoAlias(n) == n

\* this.aliases.get(commandName) || commandName
resolve(n) == IF n \in aliasNames THEN aliasOf(n) ELSE n

\* what CommandManager.commands.get answers for a name it does not hold
NoCommand == [name |-> "none", role |-> "none"]

\* the maps after the constructor's registerCommands
loadedCommands ==
    [n \in CommandNames |-> IF n \in Commands THEN [name |-> n, role |-> commandRole(n)]
                            ELSE NoCommand]

loadedAliases == [n \in CommandNames |-> IF n \in aliasNames THEN aliasOf(n) ELSE "none"]

loadedDeclared ==
    [n \in CommandNames |-> {a \in aliasNames : n \in Commands /\ aliasOf(a) = n}]

\* CommandManager.has on the maps cs, al
has(cs, al, n) == cs[n] # NoCommand \/ al[n] # "none"

\* CommandManager.get on the maps cs, al: this.aliases.get(n) || n, then
\* this.commands.get(...) || null
get(cs, al, n) ==
    LET actualCommand == IF al[n] # "none" THEN al[n] ELSE n
    IN  cs[actualCommand]

(***************************************************************************)
(* Database readers.                                                       *)
(***************************************************************************)
isAuthor(u) == u \in authors
isOwner(u) == u \in owners
isAuthorOrOwner(u) == isAuthor(u) \/ isOwner(u)
isBlacklisted(u) == u \in blacklisted
isDisabled(u) == u \in disabled

(***************************************************************************)
(* AuthMiddleware.                                                         *)
(***************************************************************************)
roleHierarchy(r) ==
    CASE r = "author" -> 3
      [] r = "owner" -> 2
      [] r = "user" -> 1

userRoleOf(u) == IF isAuthor(u) THEN "author" ELSE IF isOwner(u) THEN "owner" ELSE "user"

\* variant: only the author level is enforced
checkRoleAuthorOnly(u, requiredRole) ==
    IF requiredRole = "author" /\ ~isAuthor(u)
    THEN [authorized |-> FALSE, reason |-> "insufficient_role"]
    ELSE [authorized |-> TRUE, reason |-> "none"]

checkRole(u, requiredRole) ==
    IF roleHierarchy(userRoleOf(u)) < roleHierarchy(requiredRole)
    THEN [authorized |-> FALSE, reason |-> "insufficient_role"]
    ELSE [authorized |-> TRUE, reason |-> "none"]

\* variant: the blacklist is tested before the disabled list
checkAuthBlacklistFirst(u, requiredRole) ==
    IF isBlacklisted(u) THEN [authorized |-> FALSE, reason |-> "blacklisted"]
    ELSE IF isDisabled(u) THEN [authorized |-> FALSE, reason |-> "disabled"]
    ELSE IF botMode = "SELF" /\ ~isAuthor(u) THEN [authorized |-> FALSE, reason |-> "self_mode"]
    ELSE checkRole(u, requiredRole)

\* variant: SELF mode lets the owners through as well
checkAuthOwnersPass(u, requiredRole) ==
    IF isDisabled(u) THEN [authorized |-> FALSE, reason |-> "disabled"]
    ELSE IF isBlacklisted(u) THEN [authorized |-> FALSE, reason |-> "blacklisted"]
    ELSE IF botMode = "SELF" /\ ~isAuthorOrOwner(u)
    THEN [authorized |-> FALSE, reason |-> "self_mode"]
    ELSE checkRole(u, requiredRole)

checkAuth(u, requiredRole) ==
    IF isDisabled(u) THEN [authorized |-> FALSE, reason |-> "disabled"]
    ELSE IF isBlacklisted(u) THEN [authorized |-> FALSE, reason |-> "blacklisted"]
    ELSE IF botMode = "SELF" /\ ~isAuthor(u) THEN [authorized |-> FALSE, reason |-> "self_mode"]
    ELSE checkRole(u, requiredRole)

(***************************************************************************)
(* Database cooldown accessors and CooldownMiddleware.                     *)
(***************************************************************************)
\* Database.isOnCooldown on the cooldown map cds at time t: the remaining time,
\* 0 standing for false
isOnCooldown(cds, t, u, c) ==
    LET cooldown == cds[u][c]
    IN  IF cooldown = 0 THEN 0
        ELSE IF cooldown - t <= 0 THEN 0
        ELSE cooldown - t

\* Database.isOnCooldown's write: an expired entry is removed (removeCooldown)
cooldownsAfterRead(cds, t, u, c) ==
    IF cds[u][c] # 0 /\ cds[u][c] - t <= 0
    THEN [cds EXCEPT ![u][c] = 0]
    ELSE cds

\* Math.ceil(ms / 1000)
ceilSeconds(ms) == (ms + 999) \div 1000

\* variant: the middleware never consults the database
checkCooldownSkipped(u, c) ==
    [onCooldown |-> FALSE, remaining |-> 0, remainingSeconds |-> 0, cooldowns |-> cooldowns]

checkCooldown(u, c) ==
    IF isAuthorOrOwner(u)
    THEN [onCooldown |-> FALSE, remaining |-> 0, remainingSeconds |-> 0, cooldowns |-> cooldowns]
    ELSE IF isOnCooldown(cooldowns, now, u, c) # 0
    THEN [onCooldown |-> TRUE, remaining |-> isOnCooldown(cooldowns, now, u, c),
          remainingSeconds |-> ceilSeconds(isOnCooldown(cooldowns, now, u, c)),
          cooldowns |-> cooldowns]
    ELSE [onCooldown |-> FALSE, remaining |-> 0, remainingSeconds |-> 0,
          cooldowns |-> cooldownsAfterRead(cooldowns, now, u, c)]

\* variant: every command gets the longest override
getCooldownDurationLongest(c) == 600

\* customCooldowns[command] || config.get('security.cooldownCommand'), in seconds
getCooldownDuration(c) ==
    CASE c = "ai" -> 30
      [] c = "download-music" -> 60
      [] OTHER -> cooldownCommand

\* Database.setCooldown at time t: until = Date.now() + cooldownTime * 1000
setCooldown(cds, t, u, c, duration) == [cds EXCEPT ![u][c] = t + duration * 1000]

\* variant: the cooldown is set for author and owner too
applyCooldownNoExemption(cds, u, c) ==
    setCooldown(cds, now, u, c, getCooldownDuration(c))

\* CooldownMiddleware.applyCooldown on the cooldown map cds
applyCooldown(cds, u, c) ==
    IF isAuthorOrOwner(u) THEN cds
    ELSE setCooldown(cds, now, u, c, getCooldownDuration(c))

\* variant: the cooldown is committed whether or not the handler threw
cooldownsAfterHandlerAlways(cds, u, c, throws) == applyCooldown(cds, u, c)

\* execute after the handler: applyCooldown on success, nothing in the catch block
cooldownsAfterHandler(cds, u, c, throws) ==
    IF throws THEN cds ELSE applyCooldown(cds, u, c)

(***************************************************************************)
(* CooldownMiddleware.checkGlobalRateLimit.                                *)
(***************************************************************************)
RECURSIVE filterRecentInclusive(_, _, _)
\* variant: an entry exactly one window old still counts
filterRecentInclusive(requests, t, window) ==
    IF requests = <<>> THEN <<>>
    ELSE IF t - Head(requests) <= window
         THEN <<Head(requests)>> \o filterRecentInclusive(Tail(requests), t, window)
         ELSE filterRecentInclusive(Tail(requests), t, window)

RECURSIVE filterRecent(_, _, _)
\* requests.filter(time => t - time < window)
filterRecent(requests, t, window) ==
    IF requests = <<>> THEN <<>>
    ELSE IF t - Head(requests) < window
         THEN <<Head(requests)>> \o filterRecent(Tail(requests), t, window)
         ELSE filterRecent(Tail(requests), t, window)

\* variant: the budget is compared with > instead of >=
checkGlobalRateLimitOver(u) ==
    IF isAuthorOrOwner(u)
    THEN [limited |-> FALSE, window |-> globalCooldowns[u], read |-> FALSE, pushed |-> FALSE]
    ELSE LET recentRequests == filterRecent(globalCooldowns[u], now, timeWindow)
         IN  IF Len(recentRequests) > maxRequests
             THEN [limited |-> TRUE, window |-> recentRequests, read |-> TRUE, pushed |-> FALSE]
             ELSE [limited |-> FALSE, window |-> Append(recentRequests, now),
                   read |-> TRUE, pushed |-> TRUE]

\* variant: a rejected request is recorded in the window too
checkGlobalRateLimitPushAlways(u) ==
    IF isAuthorOrOwner(u)
    THEN [limited |-> FALSE, window |-> globalCooldowns[u], read |-> FALSE, pushed |-> FALSE]
    ELSE LET recentRequests == filterRecent(globalCooldowns[u], now, timeWindow)
         IN  [limited |-> Len(recentRequests) >= maxRequests,
              window |-> Append(recentRequests, now), read |-> TRUE, pushed |-> TRUE]

checkGlobalRateLimit(u) ==
    IF isAuthorOrOwner(u)
    THEN [limited |-> FALSE, window |-> globalCooldowns[u], read |-> FALSE, pushed |-> FALSE]
    ELSE LET recentRequests == filterRecent(globalCooldowns[u], now, timeWindow)
         IN  IF Len(recentRequests) >= maxRequests
             THEN [limited |-> TRUE, window |-> recentRequests, read |-> TRUE, pushed |-> FALSE]
             ELSE [limited |-> FALSE, window |-> Append(recentRequests, now),
                   read |-> TRUE, pushed |-> TRUE]

(***************************************************************************)
(* ValidationMiddleware.validateCommand.  An argument list is abstracted   *)
(* to: n (args.length), qlen (args.join(' ').trim().length), tok (args[0]) *)
(* and the message context isGroup.                                        *)
(***************************************************************************)
\* ValidationMiddleware.isValidURL: new URL(url) does not throw
isValidURL(tok) == tok = "https://x.io/a"

toUpperCase(tok) ==
    CASE tok = "strict" -> "STRICT"
      [] tok = "normal" -> "NORMAL"
      [] OTHER -> tok

ArgCases ==
    { [n |-> 0, qlen |-> 0, tok |-> "", isGroup |-> g] : g \in BOOLEAN } \cup
    { [n |-> 1, qlen |-> 6, tok |-> t, isGroup |-> g] :
          t \in {"strict", "LOCKDOWN", "normal", "hello"}, g \in BOOLEAN } \cup
    { [n |-> 1, qlen |-> 501, tok |-> "hello", isGroup |-> TRUE],
      [n |-> 2, qlen |-> 12, tok |-> "strict", isGroup |-> TRUE] }

\* message: "formatted" (formatValidationError), "undefined" (the catch branch
\* returns no message), "none" (valid)
validateCommand(c, args) ==
    CASE c = "ai" ->
            IF args.n < 1 \/ args.qlen = 0 \/ args.qlen > 500
            THEN [valid |-> FALSE, message |-> "formatted"]
            ELSE [valid |-> TRUE, message |-> "none"]
      [] c = "defense" ->
            IF args.n = 0
            THEN \* args[0].toUpperCase() throws inside the custom predicate
                 [valid |-> FALSE, message |-> "undefined"]
            ELSE IF args.n < 1 \/ args.n > 1 \/ toUpperCase(args.tok) \notin Modes
            THEN [valid |-> FALSE, message |-> "formatted"]
            ELSE [valid |-> TRUE, message |-> "none"]
      [] c = "download-music" ->
            IF args.n < 1 \/ ~isValidURL(args.tok)
            THEN [valid |-> FALSE, message |-> "formatted"]
            ELSE [valid |-> TRUE, message |-> "none"]
      [] OTHER -> [valid |-> TRUE, message |-> "none"]

(***************************************************************************)
(* CommandManager.execute.  h is the handler's own outcome, tx whether the *)
(* transport accepts sends during this call (bot.sendMessage rethrows).    *)
(***************************************************************************)
\* system.errorLog after db.logError: push, and shift beyond 100 entries
logError(n) == IF n + 1 > 100 THEN 100 ELSE n + 1

\* a rejection by a middleware step: the reason is sent; if the send throws the
\* catch block tries to send the error text and logs the error
rejected(base, steps, text, tx) ==
    [base EXCEPT !.steps = steps, !.result = FALSE,
                 !.sent = IF tx THEN <<text>> ELSE <<text, "error">>]

execute(u, name, args, h, tx) ==
    LET actualCommand == resolve(name)
        base == [NoLast EXCEPT !.user = u, !.cmd = actualCommand]
    IN
    IF actualCommand \notin Commands
    THEN /\ last' = base
         /\ UNCHANGED <<owners, blacklisted, disabled, botMode, cooldowns, globalCooldowns,
                        commandUsage, errorLog, defenseMode, groupMode, now, inserted>>
    ELSE
    LET authResult == checkAuth(u, commandRole(actualCommand))
        cooldownResult == checkCooldown(u, actualCommand)
        validationResult == validateCommand(actualCommand, args)
        rateLimitResult == checkGlobalRateLimit(u)
        throws == (h = "throw") \/ ~tx
    IN
    IF ~authResult.authorized
    THEN /\ last' = rejected(base, <<"auth">>, authResult.reason, tx)
         /\ errorLog' = IF tx THEN errorLog ELSE logError(errorLog)
         /\ UNCHANGED <<owners, blacklisted, disabled, botMode, cooldowns, globalCooldowns,
                        commandUsage, defenseMode, groupMode, now, inserted>>
    ELSE IF cooldownResult.onCooldown
    THEN /\ last' = [rejected(base, <<"auth", "cooldown">>, "cooldown", tx)
                        EXCEPT !.remaining = cooldownResult.remaining]
         /\ errorLog' = IF tx THEN errorLog ELSE logError(errorLog)
         /\ UNCHANGED <<owners, blacklisted, disabled, botMode, cooldowns, globalCooldowns,
                        commandUsage, defenseMode, groupMode, now, inserted>>
    ELSE IF ~validationResult.valid
    THEN /\ last' = rejected(base, <<"auth", "cooldown", "validation">>,
                             IF validationResult.message = "formatted"
                             THEN "validation" ELSE "undefined", tx)
         /\ cooldowns' = cooldownResult.cooldowns
         /\ errorLog' = IF tx THEN errorLog ELSE logError(errorLog)
         /\ UNCHANGED <<owners, blacklisted, disabled, botMode, globalCooldowns,
                        commandUsage, defenseMode, groupMode, now, inserted>>
    ELSE IF rateLimitResult.limited
    THEN /\ last' = rejected(base, <<"auth", "cooldown", "validation", "rate">>,
                             "rate_limit", tx)
         /\ cooldowns' = cooldownResult.cooldowns
         /\ globalCooldowns' = [globalCooldowns EXCEPT ![u] = rateLimitResult.window]
         /\ errorLog' = IF tx THEN errorLog ELSE logError(errorLog)
         /\ UNCHANGED <<owners, blacklisted, disabled, botMode,
                        commandUsage, defenseMode, groupMode, now, inserted>>
    ELSE \* the handler runs
         /\ globalCooldowns' = [globalCooldowns EXCEPT ![u] = rateLimitResult.window]
         /\ inserted' = IF rateLimitResult.pushed
                        THEN [inserted EXCEPT ![u] = Append(@, now)] ELSE inserted
         \* the defense handler writes the mode before its only send
         /\ groupMode' = IF actualCommand = "defense" /\ args.isGroup
                         THEN [groupMode EXCEPT !["g1"] = toUpperCase(args.tok)]
                         ELSE groupMode
         /\ defenseMode' = IF actualCommand = "defense" /\ ~args.isGroup
                           THEN toUpperCase(args.tok) ELSE defenseMode
         /\ IF throws
            THEN /\ last' = [base EXCEPT
                                !.steps = <<"auth", "cooldown", "validation", "rate", "handler">>,
                                !.result = FALSE, !.sent = <<"error">>]
                 /\ errorLog' = logError(errorLog)
                 /\ UNCHANGED commandUsage
            ELSE /\ last' = [base EXCEPT
                                !.steps = <<"auth", "cooldown", "validation", "rate",
                                            "handler", "commit">>,
                                !.result = TRUE, !.sent = <<"reply">>]
                 /\ commandUsage' = [commandUsage EXCEPT ![actualCommand] = @ + 1]
                 /\ UNCHANGED errorLog
         /\ cooldowns' = cooldownsAfterHandler(cooldownResult.cooldowns, u, actualCommand, throws)
         /\ UNCHANGED <<owners, blacklisted, disabled, botMode, now>>

\* one command message: CommandManager.execute, the moderation state untouched
Dispatch(u, name, args, h, tx) ==
    /\ execute(u, name, args, h, tx)
    /\ lastV' = NoLastV
    /\ UNCHANGED defenseState

\* MessageHandler.handleMessage for a command message in a private chat
\* (isGroup false: the group tests and the defense modules are skipped),
\* down to MessageHandler.handleCommand
handleCommandMessage(u, name, args, h, tx) ==
    /\ ~args.isGroup
    /\ lastV' = NoLastV
    /\ UNCHANGED defenseState
    /\ IF isBlacklisted(u)
       THEN /\ last' = [NoLast EXCEPT !.user = u, !.cmd = resolve(name)]
            /\ UNCHANGED <<owners, blacklisted, disabled, botMode, cooldowns,
                           globalCooldowns, commandUsage, errorLog, defenseMode,
                           groupMode, now, inserted>>
       ELSE IF isDisabled(u) \/ (botMode = "SELF" /\ ~isAuthor(u))
       THEN \* the notice is sent from handleMessage; a failed send is logged there
            /\ last' = [NoLast EXCEPT !.user = u, !.cmd = resolve(name),
                                      !.sent = <<IF isDisabled(u) THEN "disabled"
                                                 ELSE "self_mode">>]
            /\ errorLog' = IF tx THEN errorLog ELSE logError(errorLog)
            /\ UNCHANGED <<owners, blacklisted, disabled, botMode, cooldowns,
                           globalCooldowns, commandUsage, defenseMode, groupMode,
                           now, inserted>>
       ELSE execute(u, name, args, h, tx)

\* CommandManager.register({name, aliases, role}): the command is stored under
\* its name and every alias is pointed at the name; nothing is removed
register(name, role, als) ==
    /\ commands' = [commands EXCEPT ![name] = [name |-> name, role |-> role]]
    /\ aliases' = [n \in DOMAIN aliases |-> IF n \in als THEN name ELSE aliases[n]]
    /\ declared' = [declared EXCEPT ![name] = als]
    /\ UNCHANGED <<owners, blacklisted, disabled, botMode, cooldowns, globalCooldowns,
                   commandUsage, errorLog, defenseMode, groupMode, now, inserted,
                   warned, muted, protected, enabled, violations, messageTracker,
                   tracked, lastIndex, maxLength, pending, kicked, warnEvents, broadcasting>>
    /\ last' = NoLast /\ lastV' = NoLastV

\* CommandManager.reload: both maps are cleared and the modules registered anew
reload ==
    /\ commands' = loadedCommands
    /\ aliases' = loadedAliases
    /\ declared' = loadedDeclared
    /\ <<commands, aliases>> # <<loadedCommands, loadedAliases>>
    /\ UNCHANGED <<owners, blacklisted, disabled, botMode, cooldowns, globalCooldowns,
                   commandUsage, errorLog, defenseMode, groupMode, now, inserted,
                   warned, muted, protected, enabled, violations, messageTracker,
                   tracked, lastIndex, maxLength, pending, kicked, warnEvents, broadcasting>>
    /\ last' = NoLast /\ lastV' = NoLastV

(***************************************************************************)
(* Database writers used by the privileged commands.                       *)
(***************************************************************************)
adminFrame == <<cooldowns, globalCooldowns, commandUsage, errorLog, defenseMode,
                groupMode, now, inserted, defenseState>>

addOwner(u) ==
    /\ u \notin owners
    /\ owners' = owners \cup {u}
    /\ UNCHANGED <<blacklisted, disabled, botMode>> /\ UNCHANGED adminFrame
    /\ last' = NoLast /\ lastV' = NoLastV

removeOwner(u) ==
    /\ u \in owners
    /\ owners' = owners \ {u}
    /\ UNCHANGED <<blacklisted, disabled, botMode>> /\ UNCHANGED adminFrame
    /\ last' = NoLast /\ lastV' = NoLastV

addBlacklist(u) ==
    /\ u \notin blacklisted
    /\ blacklisted' = blacklisted \cup {u}
    /\ UNCHANGED <<owners, disabled, botMode>> /\ UNCHANGED adminFrame
    /\ last' = NoLast /\ lastV' = NoLastV

removeBlacklist(u) ==
    /\ u \in blacklisted
    /\ blacklisted' = blacklisted \ {u}
    /\ UNCHANGED <<owners, disabled, botMode>> /\ UNCHANGED adminFrame
    /\ last' = NoLast /\ lastV' = NoLastV

addDisabled(u) ==
    /\ u \notin disabled
    /\ disabled' = disabled \cup {u}
    /\ UNCHANGED <<owners, blacklisted, botMode>> /\ UNCHANGED adminFrame
    /\ last' = NoLast /\ lastV' = NoLastV

removeDisabled(u) ==
    /\ u \in disabled
    /\ disabled' = disabled \ {u}
    /\ UNCHANGED <<owners, blacklisted, botMode>> /\ UNCHANGED adminFrame
    /\ last' = NoLast /\ lastV' = NoLastV

setBotMode(m) ==
    /\ botMode # m
    /\ botMode' = m
    /\ UNCHANGED <<owners, blacklisted, disabled>> /\ UNCHANGED adminFrame
    /\ last' = NoLast /\ lastV' = NoLastV

\* the clock, up to time limit
Advance(d, limit) ==
    /\ now + d <= limit
    /\ now' = now + d
    /\ UNCHANGED <<owners, blacklisted, disabled, botMode, cooldowns, globalCooldowns,
                   commandUsage, errorLog, defenseMode, groupMode, inserted, defenseState>>
    /\ last' = NoLast /\ lastV' = NoLastV

(***************************************************************************)
(* Messages.  A message body is abstracted to what the detectors read:     *)
(* len (length), run (longest run of one character), emoji and invis       *)
(* (counts), pat (the virtexPatterns that match it, the match spanning     *)
(* pstart..pend), links (number of links outside the whitelist), words     *)
(* (bad words it contains, tier1 if one is of the first tier) and norm (the *)
(* body lower-cased and trimmed).                                          *)
(***************************************************************************)
Plain == [len |-> 2, run |-> 1, emoji |-> 0, invis |-> 0, pat |-> {}, pstart |-> 0,
          pend |-> 0, links |-> 0, words |-> 0, tier1 |-> FALSE, norm |-> "hi"]

Message(id) ==
    CASE id = "hi"       -> Plain
      [] id = "HI "      -> [Plain EXCEPT !.len = 3]
      [] id = "long300"  -> [Plain EXCEPT !.len = 300, !.norm = "long300"]
      [] id = "long600"  -> [Plain EXCEPT !.len = 600, !.norm = "long600"]
      [] id = "long1001" -> [Plain EXCEPT !.len = 1001, !.norm = "long1001"]
      [] id = "run50"    -> [Plain EXCEPT !.len = 50, !.run = 50, !.norm = "run50"]
      [] id = "run12"    -> [Plain EXCEPT !.len = 12, !.run = 12, !.norm = "run12"]
      [] id = "run49"    -> [Plain EXCEPT !.len = 49, !.run = 49, !.norm = "run49"]
      [] id = "run60"    -> [Plain EXCEPT !.len = 60, !.run = 60, !.norm = "run60"]
      [] id = "emoji30"  -> [Plain EXCEPT !.len = 60, !.emoji = 30, !.norm = "emoji30"]
      [] id = "invis20"  -> [Plain EXCEPT !.len = 22, !.invis = 20, !.norm = "invis20"]
      [] id = "zw5"      -> [Plain EXCEPT !.len = 7, !.invis = 5, !.pat = {2, 4},
                                          !.pend = 5, !.norm = "zw5"]
      [] id = "link"     -> [Plain EXCEPT !.len = 20, !.links = 1, !.norm = "link"]
      [] id = "longlink" -> [Plain EXCEPT !.len = 300, !.links = 1, !.norm = "longlink"]
      [] id = "runlink"  -> [Plain EXCEPT !.len = 32, !.run = 12, !.links = 1,
                                          !.norm = "runlink"]
      [] id = "toxic"    -> [Plain EXCEPT !.len = 6, !.words = 1, !.tier1 = TRUE,
                                          !.norm = "toxic"]
      [] id = "toxiclink" -> [Plain EXCEPT !.len = 26, !.words = 1, !.links = 1,
                                           !.norm = "toxiclink"]
      [] id = ".ping"    -> [Plain EXCEPT !.len = 5, !.norm = ".ping"]
      [] id = ".ping link" -> [Plain EXCEPT !.len = 25, !.links = 1, !.norm = ".ping link"]
      [] id = ".ai long300" -> [Plain EXCEPT !.len = 300, !.norm = ".ai long300"]

MessageIds == {"hi", "HI ", "long300", "long600", "long1001", "run50", "run12",
               "run49", "run60",
               "emoji30", "invis20", "zw5", "link", "longlink", "runlink", "toxic",
               "toxiclink", ".ping", ".ping link", ".ai long300"}

NotDetected == [detected |-> FALSE, type |-> "none", severity |-> "none"]

(***************************************************************************)
(* AntiVirtex.                                                             *)
(***************************************************************************)
calculateLengthSeverity(length) ==
    IF length > 1000 THEN "critical"
    ELSE IF length > 500 THEN "high"
    ELSE IF length > 250 THEN "medium"
    ELSE "low"

checkLength(m) ==
    IF m.len > maxLength
    THEN [detected |-> TRUE, type |-> "excessive_length",
          severity |-> calculateLengthSeverity(m.len)]
    ELSE NotDetected

\* variant: every run the regex finds counts
checkRepeatedCharactersAnyMatch(m) ==
    IF m.run >= 10
    THEN [detected |-> TRUE, type |-> "repeated_characters", severity |-> "high"]
    ELSE NotDetected

\* the regex finds runs of 10 and more; the longest must reach the threshold
checkRepeatedCharacters(m) ==
    IF m.run >= 10 /\ m.run >= repeatedCharThreshold
    THEN [detected |-> TRUE, type |-> "repeated_characters", severity |-> "high"]
    ELSE NotDetected

checkEmojiFlood(m) ==
    IF m.emoji >= emojiThreshold
    THEN [detected |-> TRUE, type |-> "emoji_flood", severity |-> "medium"]
    ELSE NotDetected

checkInvisibleCharacters(m) ==
    IF m.invis >= invisibleCharThreshold
    THEN [detected |-> TRUE, type |-> "invisible_characters", severity |-> "high"]
    ELSE NotDetected

RECURSIVE checkVirtexPatterns(_, _, _)
\* pattern.test(message) on the global regexes from pattern p on: a test
\* searches from the regex's lastIndex, sets it to the end of the match it
\* finds and resets it to 0 when it finds none
checkVirtexPatterns(m, li, p) ==
    IF p > 4 THEN [detected |-> FALSE, lastIndex |-> li]
    ELSE IF p \in m.pat /\ m.pstart >= li[p]
         THEN [detected |-> TRUE, lastIndex |-> [li EXCEPT ![p] = m.pend]]
         ELSE checkVirtexPatterns(m, [li EXCEPT ![p] = 0], p + 1)

\* AntiVirtex.detect: the verdict and the pattern state it leaves
antiVirtexDetect(m, li) ==
    IF checkLength(m).detected THEN [verdict |-> checkLength(m), lastIndex |-> li]
    ELSE IF checkRepeatedCharacters(m).detected
         THEN [verdict |-> checkRepeatedCharacters(m), lastIndex |-> li]
    ELSE IF checkEmojiFlood(m).detected
         THEN [verdict |-> checkEmojiFlood(m), lastIndex |-> li]
    ELSE IF checkInvisibleCharacters(m).detected
         THEN [verdict |-> checkInvisibleCharacters(m), lastIndex |-> li]
    ELSE IF checkVirtexPatterns(m, li, 1).detected
         THEN [verdict |-> [detected |-> TRUE, type |-> "virtex_pattern",
                            severity |-> "critical"],
               lastIndex |-> checkVirtexPatterns(m, li, 1).lastIndex]
    ELSE [verdict |-> NotDetected, lastIndex |-> checkVirtexPatterns(m, li, 1).lastIndex]

antiVirtexDetermineAction(severity, mode) ==
    IF severity = "critical" THEN "kick"
    ELSE CASE mode = "NORMAL" /\ severity \in {"low", "medium", "high"} -> "warn"
           [] mode = "STRICT" /\ severity \in {"low", "medium"} -> "warn"
           [] mode = "STRICT" /\ severity = "high" -> "kick"
           [] mode = "LOCKDOWN" /\ severity = "low" -> "warn"
           [] mode = "LOCKDOWN" /\ severity \in {"medium", "high"} -> "kick"
           [] OTHER -> "warn"

(***************************************************************************)
(* AntiToxic.                                                              *)
(***************************************************************************)
\* AntiToxic.normalizeMessage builds new RegExp(sub, 'g') for every key of its
\* replacement table; the key '+' is not a regular expression, so the call
\* throws for every message
normalizeMessageThrows(m) == TRUE

calculateSeverity(words, hasTier1) ==
    IF words = 0 THEN "none"
    ELSE IF hasTier1 \/ words >= 3 THEN "high"
    ELSE IF words >= 2 THEN "medium"
    ELSE "low"

\* variant: a throwing normalizeMessage counts as a detection
antiToxicDetectFailClosed(m) ==
    IF normalizeMessageThrows(m) \/ m.words > 0
    THEN [detected |-> TRUE, type |-> "toxic", severity |-> "high"]
    ELSE NotDetected

\* AntiToxic.detect: the catch block answers for a throwing normalizeMessage
antiToxicDetect(m) ==
    IF normalizeMessageThrows(m) THEN NotDetected
    ELSE IF m.words > 0
         THEN [detected |-> TRUE, type |-> "toxic",
               severity |-> calculateSeverity(m.words, m.tier1)]
         ELSE NotDetected

antiToxicDetermineAction(severity, mode) ==
    CASE mode = "NORMAL" /\ severity \in {"low", "medium", "high"} -> "warn"
      [] mode = "STRICT" /\ severity = "low" -> "warn"
      [] mode = "STRICT" /\ severity \in {"medium", "high"} -> "mute"
      [] mode = "LOCKDOWN" /\ severity = "low" -> "mute"
      [] mode = "LOCKDOWN" /\ severity \in {"medium", "high"} -> "kick"
      [] OTHER -> "warn"

(***************************************************************************)
(* AntiLink.                                                               *)
(***************************************************************************)
antiLinkDetect(m) ==
    IF m.links > 0
    THEN [detected |-> TRUE, type |-> "link", severity |-> "none"]
    ELSE NotDetected

\* AntiLink.getDefenseModeConfig
antiLinkModeConfig(mode) ==
    CASE mode = "STRICT" -> [action |-> "mute", severity |-> "medium"]
      [] mode = "LOCKDOWN" -> [action |-> "kick", severity |-> "high"]
      [] OTHER -> [action |-> "warn", severity |-> "low"]

(***************************************************************************)
(* AntiSpam.                                                               *)
(***************************************************************************)
RECURSIVE filterMessages(_, _, _)
\* userMessages.filter(msg => timestamp - msg.timestamp < window)
filterMessages(messages, timestamp, window) ==
    IF messages = <<>> THEN <<>>
    ELSE IF timestamp - Head(messages).timestamp < window
         THEN <<Head(messages)>> \o filterMessages(Tail(messages), timestamp, window)
         ELSE filterMessages(Tail(messages), timestamp, window)

detectRapidFire(messages) == Len(messages) >= messageThreshold

\* the largest number of messages with one content.toLowerCase().trim()
maxDuplicates(messages) ==
    LET count(i) == Cardinality({j \in 1..Len(messages) :
                        Message(messages[j].content).norm = Message(messages[i].content).norm})
    IN  IF messages = <<>> THEN 0
        ELSE CHOOSE n \in {count(i) : i \in 1..Len(messages)} :
                 \A i \in 1..Len(messages) : count(i) <= n

detectDuplicate(messages) ==
    Len(messages) >= 2 /\ maxDuplicates(messages) >= duplicateThreshold

detectCharacterFlood(m) == m.run >= characterFloodThreshold

\* AntiSpam.detect: the verdict and the tracker entry of the sender it leaves
antiSpamDetect(u, id, timestamp) ==
    LET recentMessages ==
            Append(filterMessages(messageTracker[u], timestamp, antiSpamTime * 1000),
                   [timestamp |-> timestamp, content |-> id])
        type == IF detectRapidFire(recentMessages) THEN "rapid_fire"
                ELSE IF detectDuplicate(recentMessages) THEN "duplicate"
                ELSE IF detectCharacterFlood(Message(id)) THEN "character_flood"
                ELSE "none"
    IN  [verdict |-> [detected |-> type # "none", type |-> type, severity |-> "none"],
         messages |-> recentMessages,
         messageCount |-> Len(recentMessages)]

\* AntiSpam.getDefenseModeConfig(mode).muteDuration, in minutes
muteDuration(mode) ==
    CASE mode = "STRICT" -> 30
      [] mode = "LOCKDOWN" -> 60
      [] OTHER -> 10

(***************************************************************************)
(* Database writers of the moderation side.                                *)
(***************************************************************************)
\* Database.isMuted: an entry whose time has passed no longer mutes
isMuted(u) == muted[u] # 0 /\ ~(now > muted[u])

\* Database.addMute: until = Date.now() + duration * 60 * 1000
addMute(mt, u, duration) == [mt EXCEPT ![u] = now + duration * 60 * 1000]

\* groupSettings.defenseMode || db.getDefenseMode(): the settings of a group,
\* stored or default, always carry a mode
modeOf(g) == groupMode[g]

(***************************************************************************)
(* The modules' violation handlers.  Each yields the moderation state it   *)
(* leaves and what it did.  tx tells whether the transport works:          *)
(* deleteMessage and kickParticipant swallow a failure, sendMessage        *)
(* rethrows it into the handler's catch block.                             *)
(***************************************************************************)
\* variant: the kick comes only when the count exceeds the maximum
warnBranchLate(u) ==
    LET warnCount == warned[u] + 1
    IN  IF warnCount > maxWarn
        THEN [warned |-> [warned EXCEPT ![u] = 0], warnCount |-> warnCount, kicks |-> 1]
        ELSE [warned |-> [warned EXCEPT ![u] = warnCount], warnCount |-> warnCount,
              kicks |-> 0]

\* the warn branch shared by AntiVirtex.handle, AntiToxic.handle and AntiLink.handle
warnBranch(u) ==
    LET warnCount == warned[u] + 1
    IN  IF warnCount >= maxWarn
        THEN [warned |-> [warned EXCEPT ![u] = 0], warnCount |-> warnCount, kicks |-> 1]
        ELSE [warned |-> [warned EXCEPT ![u] = warnCount], warnCount |-> warnCount,
              kicks |-> 0]

NoEffect == [warned |-> warned, muted |-> muted, violations |-> violations,
             action |-> "none", deleted |-> FALSE, kicks |-> 0, warnCount |-> 0,
             notice |-> FALSE, cleared |-> FALSE]

antiVirtexHandle(u, verdict, tx) ==
    LET action == antiVirtexDetermineAction(verdict.severity, modeOf("g1"))
        counted == [violations EXCEPT !["antiVirtex"] = @ + 1]
    IN  IF action = "warn"
        THEN [NoEffect EXCEPT !.action = action, !.deleted = TRUE,
                              !.warned = warnBranch(u).warned,
                              !.warnCount = warnBranch(u).warnCount,
                              !.kicks = warnBranch(u).kicks,
                              !.notice = TRUE,
                              !.violations = IF tx THEN counted ELSE violations]
        ELSE IF action = "kick"
        THEN [NoEffect EXCEPT !.action = action, !.deleted = TRUE, !.kicks = 1,
                              !.notice = TRUE,
                              !.violations = IF tx THEN counted ELSE violations]
        ELSE [NoEffect EXCEPT !.action = action, !.deleted = TRUE,
                              !.violations = counted]

antiToxicHandle(u, verdict, tx) ==
    LET action == antiToxicDetermineAction(verdict.severity, modeOf("g1"))
        counted == [violations EXCEPT !["antiToxic"] = @ + 1]
    IN  IF action = "warn"
        THEN [NoEffect EXCEPT !.action = action, !.deleted = TRUE,
                              !.warned = warnBranch(u).warned,
                              !.warnCount = warnBranch(u).warnCount,
                              !.kicks = warnBranch(u).kicks,
                              !.notice = TRUE,
                              !.violations = IF tx THEN counted ELSE violations]
        ELSE IF action = "mute"
        THEN [NoEffect EXCEPT !.action = action, !.deleted = TRUE,
                              !.muted = addMute(muted, u, 10),
                              !.notice = TRUE,
                              !.violations = IF tx THEN counted ELSE violations]
        ELSE [NoEffect EXCEPT !.action = action, !.deleted = TRUE, !.kicks = 1,
                              !.notice = TRUE,
                              !.violations = IF tx THEN counted ELSE violations]

\* the mute and kick branches assign to a const (muteMessage, kickMessage):
\* the TypeError ends the handler before the notice and the statistics
antiLinkHandle(u, tx) ==
    LET action == antiLinkModeConfig(modeOf("g1")).action
        counted == [violations EXCEPT !["antiLink"] = @ + 1]
    IN  IF action = "warn"
        THEN [NoEffect EXCEPT !.action = action, !.deleted = TRUE,
                              !.warned = warnBranch(u).warned,
                              !.warnCount = warnBranch(u).warnCount,
                              !.kicks = warnBranch(u).kicks,
                              !.notice = TRUE,
                              !.violations = IF tx THEN counted ELSE violations]
        ELSE IF action = "mute"
        THEN [NoEffect EXCEPT !.action = action, !.deleted = TRUE,
                              !.muted = addMute(muted, u, 10)]
        ELSE [NoEffect EXCEPT !.action = action, !.deleted = TRUE, !.kicks = 1]

\* AntiSpam.handle mutes whatever the mode, deletes nothing, and clears the
\* sender's tracker only after the notice went out
antiSpamHandle(u, tx) ==
    [NoEffect EXCEPT !.action = "mute",
                     !.muted = addMute(muted, u, muteDuration(modeOf("g1"))),
                     !.notice = TRUE,
                     !.cleared = tx,
                     !.violations = IF tx THEN [violations EXCEPT !["antiSpam"] = @ + 1]
                                    ELSE violations]

(***************************************************************************)
(* DefenseEngine.checkMessage and MessageHandler.handleMessage.            *)
(***************************************************************************)
\* DefenseEngine.runModuleDetection; st carries what the detectors write: the
\* pattern state and the sender's tracker entry
runModuleDetection(name, u, id, st) ==
    CASE name = "antiVirtex" ->
            LET r == antiVirtexDetect(Message(id), st.lastIndex)
            IN  [verdict |-> r.verdict, st |-> [st EXCEPT !.lastIndex = r.lastIndex]]
      [] name = "antiToxic" -> [verdict |-> antiToxicDetect(Message(id)), st |-> st]
      [] name = "antiLink" -> [verdict |-> antiLinkDetect(Message(id)), st |-> st]
      [] name = "antiSpam" ->
            LET r == antiSpamDetect(u, id, now)
            IN  [verdict |-> r.verdict,
                 st |-> [st EXCEPT !.messages = r.messages, !.pushed = TRUE]]

RECURSIVE runModules(_, _, _, _, _)
\* the loop over this.modules from position i on: disabled modules are
\* skipped, the first positive detection ends the loop
runModules(order, u, id, i, st) ==
    IF i > Len(order)
    THEN [module |-> "none", verdict |-> NotDetected, st |-> st]
    ELSE IF ~enabled[order[i]]
         THEN runModules(order, u, id, i + 1, st)
         ELSE LET d == runModuleDetection(order[i], u, id, st)
              IN  IF d.verdict.detected
                  THEN [module |-> order[i], verdict |-> d.verdict, st |-> d.st]
                  ELSE runModules(order, u, id, i + 1, d.st)

\* DefenseEngine.handleViolation
handleViolation(name, u, verdict, tx) ==
    CASE name = "antiVirtex" -> antiVirtexHandle(u, verdict, tx)
      [] name = "antiToxic" -> antiToxicHandle(u, verdict, tx)
      [] name = "antiLink" -> antiLinkHandle(u, tx)
      [] name = "antiSpam" -> antiSpamHandle(u, tx)
      [] OTHER -> NoEffect

commandFrame == <<owners, blacklisted, disabled, botMode, cooldowns, globalCooldowns,
                  commandUsage, errorLog, defenseMode, groupMode, now, inserted>>

\* a group message of user u that is not a command
handleMessage(u, id, tx) ==
    /\ last' = NoLast
    /\ UNCHANGED commandFrame
    /\ UNCHANGED <<protected, enabled>>
    /\ IF \/ isBlacklisted(u) \/ isDisabled(u)
          \/ (botMode = "SELF" /\ ~isAuthor(u))
          \/ "g1" \notin protected
       THEN /\ lastV' = [NoLastV EXCEPT !.user = u, !.msg = id]
            /\ UNCHANGED <<warned, muted, violations, messageTracker, tracked, lastIndex, maxLength, commands, aliases, declared, pending, kicked, warnEvents, broadcasting>>
       ELSE IF isMuted(u)
       THEN /\ lastV' = [NoLastV EXCEPT !.user = u, !.msg = id, !.deleted = TRUE]
            /\ UNCHANGED <<warned, muted, violations, messageTracker, tracked, lastIndex, maxLength, commands, aliases, declared, pending, kicked, warnEvents, broadcasting>>
       ELSE IF isAuthorOrOwner(u)
       THEN /\ lastV' = [NoLastV EXCEPT !.user = u, !.msg = id]
            /\ muted' = [muted EXCEPT ![u] = 0]
            /\ UNCHANGED <<warned, violations, messageTracker, tracked, lastIndex, maxLength, commands, aliases, declared, pending, kicked, warnEvents, broadcasting>>
       ELSE \E r \in {runModules(ModuleOrder, u, id, 1,
                                 [lastIndex |-> lastIndex, messages |-> messageTracker[u],
                                  pushed |-> FALSE])} :
            \E e \in {handleViolation(r.module, u, r.verdict, tx)} :
            /\ lastV' = [NoLastV EXCEPT
                           !.user = u, !.msg = id,
                           !.ran = IF r.module = "none" THEN <<>> ELSE <<r.module>>,
                           !.severity = r.verdict.severity,
                           !.mode = IF r.module = "none" THEN "none" ELSE modeOf("g1"),
                           !.action = e.action, !.deleted = e.deleted,
                           !.kicks = e.kicks, !.warnCount = e.warnCount,
                           !.notice = e.notice, !.blocked = r.module # "none",
                           !.checked = TRUE]
            /\ warned' = e.warned
            /\ muted' = [e.muted EXCEPT ![u] = IF e.muted[u] = muted[u] THEN 0 ELSE @]
            /\ violations' = e.violations
            /\ lastIndex' = r.st.lastIndex
            /\ UNCHANGED <<maxLength, commands, aliases, declared, pending, kicked, warnEvents, broadcasting>>
            /\ messageTracker' =
                  [messageTracker EXCEPT ![u] = IF e.cleared THEN <<>> ELSE r.st.messages]
            /\ tracked' =
                  [tracked EXCEPT ![u] = IF e.cleared THEN <<>>
                                         ELSE IF r.st.pushed THEN Append(@, now) ELSE @]

(***************************************************************************)
(* Writers of the moderation settings.                                     *)
(***************************************************************************)
settingsFrame == <<warned, violations, messageTracker, tracked, lastIndex, maxLength, commands, aliases, declared, pending, kicked, warnEvents, broadcasting>>

\* Database.addProtected (the adddefense command): the group joins the
\* protected list and its settings are set to the defaults
addProtected(g) ==
    /\ g \notin protected
    /\ protected' = protected \cup {g}
    /\ enabled' = [name \in DOMAIN enabled |-> TRUE]
    /\ groupMode' = [groupMode EXCEPT ![g] = "NORMAL"]
    /\ UNCHANGED muted /\ UNCHANGED settingsFrame
    /\ UNCHANGED <<owners, blacklisted, disabled, botMode, cooldowns, globalCooldowns,
                   commandUsage, errorLog, defenseMode, now, inserted>>
    /\ last' = NoLast /\ lastV' = NoLastV

\* Database.updateGroupSetting(g, module, value): the modules' enable and disable
updateGroupSetting(name, value) ==
    /\ enabled[name] # value
    /\ enabled' = [enabled EXCEPT ![name] = value]
    /\ UNCHANGED <<muted, protected>> /\ UNCHANGED settingsFrame /\ UNCHANGED commandFrame
    /\ last' = NoLast /\ lastV' = NoLastV

\* DefenseEngine.setDefenseMode(g, mode)
setDefenseMode(g, mode) ==
    /\ groupMode[g] # mode
    /\ groupMode' = [groupMode EXCEPT ![g] = mode]
    /\ UNCHANGED <<owners, blacklisted, disabled, botMode, cooldowns, globalCooldowns,
                   commandUsage, errorLog, defenseMode, now, inserted>>
    /\ UNCHANGED defenseState
    /\ last' = NoLast /\ lastV' = NoLastV

\* Database.removeMute (the unmute command)
removeMute(u) ==
    /\ muted[u] # 0
    /\ muted' = [muted EXCEPT ![u] = 0]
    /\ UNCHANGED <<protected, enabled>> /\ UNCHANGED settingsFrame /\ UNCHANGED commandFrame
    /\ last' = NoLast /\ lastV' = NoLastV

(***************************************************************************)
(* Member joins: GroupHandler.handleMemberJoin, DefenseEngine.checkNewMember *)
(* and GeoRestriction.  A phone number is the sequence of its digits.      *)
(***************************************************************************)
phoneNumber(u) ==
    CASE u = "a" -> <<6, 2, 8, 1, 1>>
      [] u = "u1" -> <<6, 2, 8, 2, 2>>
      [] u = "u2" -> <<6, 0, 1, 2, 3>>

\* String.prototype.startsWith
startsWith(number, code) ==
    Len(code) <= Len(number) /\ \A i \in 1..Len(code) : number[i] = code[i]

\* GeoRestriction.allowedCountries
allowedCountries == << <<6, 2>> >>

\* GeoRestriction.whitelist: empty at construction, and nothing calls addToWhitelist
geoWhitelist == {}

\* countryMap in the order Object.entries gives its integer-like keys
countryMap ==
    << [code |-> <<1>>, country |-> "USA/Canada"], [code |-> <<4, 4>>, country |-> "UK"],
       [code |-> <<6, 0>>, country |-> "Malaysia"], [code |-> <<6, 2>>, country |-> "Indonesia"],
       [code |-> <<6, 3>>, country |-> "Philippines"],
       [code |-> <<6, 5>>, country |-> "Singapore"], [code |-> <<6, 6>>, country |-> "Thailand"],
       [code |-> <<8, 1>>, country |-> "Japan"], [code |-> <<8, 2>>, country |-> "South Korea"],
       [code |-> <<8, 4>>, country |-> "Vietnam"], [code |-> <<8, 6>>, country |-> "China"],
       [code |-> <<9, 1>>, country |-> "India"] >>

\* GeoRestriction.getCountryFromNumber: the first entry whose code starts the number
getCountryFromNumber(number) ==
    LET hits == {i \in 1..Len(countryMap) : startsWith(number, countryMap[i].code)}
    IN  IF hits = {} THEN "Unknown"
        ELSE countryMap[CHOOSE i \in hits : \A j \in hits : i <= j].country

\* GeoRestriction.detect
geoDetect(u) ==
    IF phoneNumber(u) \in geoWhitelist
    THEN [allowed |-> TRUE, country |-> getCountryFromNumber(phoneNumber(u))]
    ELSE [allowed |-> \E i \in 1..Len(allowedCountries) :
                        startsWith(phoneNumber(u), allowedCountries[i]),
          country |-> getCountryFromNumber(phoneNumber(u))]

\* DefenseEngine.checkNewMember with GeoRestriction.handle: what it decides
\* and does for participant p; a failed send ends the blacklist branch in
\* the catch block (not blocked) and the geo handler before the statistics
checkNewMember(p, tx) ==
    IF "g1" \notin protected \/ isAuthorOrOwner(p)
    THEN [blocked |-> FALSE, reason |-> "none", kicks |-> 0, notice |-> FALSE,
          country |-> "none", counted |-> FALSE]
    ELSE IF isBlacklisted(p)
    THEN [blocked |-> tx, reason |-> "blacklisted", kicks |-> 1, notice |-> TRUE,
          country |-> "none", counted |-> FALSE]
    ELSE IF ~geoDetect(p).allowed /\ enabled["geoRestriction"]
    THEN [blocked |-> TRUE, reason |-> "geo_restriction", kicks |-> 1, notice |-> TRUE,
          country |-> geoDetect(p).country, counted |-> tx]
    ELSE [blocked |-> FALSE, reason |-> "none", kicks |-> 0, notice |-> FALSE,
          country |-> "none", counted |-> FALSE]

\* GroupHandler.handleParticipantsUpdate with action 'add' for one
\* participant; meta tells whether the group metadata could be fetched
handleMemberJoin(p, meta, tx) ==
    /\ last' = NoLast
    /\ UNCHANGED commandFrame
    /\ UNCHANGED <<warned, muted, protected, enabled, messageTracker, tracked, lastIndex, maxLength, commands, aliases, declared, pending, kicked, warnEvents, broadcasting>>
    /\ IF "g1" \notin protected \/ ~enabled["welcome"] \/ ~meta
       THEN /\ lastV' = [NoLastV EXCEPT !.user = p, !.msg = "join"]
            /\ UNCHANGED violations
       ELSE \E r \in {checkNewMember(p, tx)} :
            /\ lastV' = [NoLastV EXCEPT
                           !.user = p, !.msg = "join",
                           !.ran = IF r.reason = "none" THEN <<>> ELSE <<r.reason>>,
                           !.mode = modeOf("g1"),
                           !.action = IF r.kicks = 1 THEN "kick" ELSE "none",
                           !.kicks = r.kicks, !.notice = r.notice,
                           !.country = r.country, !.blocked = r.blocked,
                           !.welcomed = ~r.blocked]
            /\ violations' = IF r.counted
                             THEN [violations EXCEPT !["geoRestriction"] = @ + 1]
                             ELSE violations

(***************************************************************************)
(* Initial state: the default data of Database.getDefaultData and the      *)
(* empty maps of the middleware constructors.                              *)
(***************************************************************************)
InitData ==
    /\ owners = {}
    /\ blacklisted = {}
    /\ disabled = {}
    /\ botMode = "PUBLIC"
    /\ cooldowns = [u \in Users |-> [c \in Commands |-> 0]]
    /\ globalCooldowns = [u \in Users |-> <<>>]
    /\ commandUsage = [c \in Commands |-> 0]
    /\ errorLog = 0
    /\ defenseMode = "NORMAL"
    /\ groupMode = [g \in Groups |-> "NORMAL"]
    /\ now = 0
    /\ inserted = [u \in Users |-> <<>>]
    /\ warned = [u \in Users |-> 0]
    /\ muted = [u \in Users |-> 0]
    /\ protected = {}
    /\ enabled = [m \in SettingNames |-> TRUE]
    /\ violations = [m \in ViolationTypes |-> 0]
    /\ messageTracker = [u \in Users |-> <<>>]
    /\ tracked = [u \in Users |-> <<>>]
    /\ lastIndex = [p \in 1..4 |-> 0]
    /\ commands = loadedCommands
    /\ aliases = loadedAliases
    /\ declared = loadedDeclared
    /\ pending = [t \in Tasks |-> Idle]
    /\ kicked = [u \in Users |-> 0]
    /\ warnEvents = [u \in Users |-> 0]
    /\ broadcasting = FALSE
    /\ lastV = NoLastV
    /\ last = NoLast

\* security.maxMessageLength: parseInt(process.env.MAX_MESSAGE_LENGTH) || 250,
\* read once more with || 250 by the AntiVirtex constructor; configured is the
\* parsed number, 0 standing for an unset or unparsable variable (NaN)
settingsMaxLength(configured) ==
    IF configured = 0 THEN maxMessageLength ELSE configured

\* the bot started with the default configuration
Init ==
    /\ InitData
    /\ maxLength = settingsMaxLength(0)

\* statistics and error log stay within the model's bounds: a call that may
\* count a use needs room in the statistics, one that may log an error needs
\* room in the log
Bounded(mu, me, h, tx) ==
    /\ (h = "ok" /\ tx) =>
          commandUsage["ping"] + commandUsage["ai"] + commandUsage["info-grup"]
            + commandUsage["defense"] + commandUsage["download-music"] < mu
    /\ (h = "throw" \/ ~tx) => errorLog < me

\* handler outcome and transport state of one call
Outcomes == {<<"ok", TRUE>>, <<"throw", TRUE>>, <<"ok", FALSE>>}

DispatchArgs ==
    { [n |-> 0, qlen |-> 0, tok |-> "", isGroup |-> TRUE],
      [n |-> 1, qlen |-> 6, tok |-> "strict", isGroup |-> TRUE],
      [n |-> 1, qlen |-> 6, tok |-> "hello", isGroup |-> TRUE] }

NoArgs == [n |-> 0, qlen |-> 0, tok |-> "", isGroup |-> TRUE]

Next ==
    \/ \E u \in {"a", "u1"}, name \in {"ping", "info-grup", "groupinfo", "nope"},
          o \in Outcomes :
          Bounded(MaxUsage, MaxErrors, o[1], o[2]) /\ Dispatch(u, name, NoArgs, o[1], o[2])
    \/ \E u \in {"a", "u1"}, args \in DispatchArgs, o \in Outcomes :
          Bounded(MaxUsage, MaxErrors, o[1], o[2])
            /\ Dispatch(u, "defense", args, o[1], o[2])
    \/ \E u \in {"u1"} : addOwner(u) \/ removeOwner(u)
    \/ \E u \in {"u1"} : addBlacklist(u) \/ removeBlacklist(u)
    \/ \E u \in {"u1"} : addDisabled(u) \/ removeDisabled(u)
    \/ \E m \in {"PUBLIC", "SELF"} : setBotMode(m)
    \/ Advance(10000, MaxTime)

Spec == Init /\ [][Next]_vars

(***************************************************************************)
(* The rate budget: one member sending commands, whose handlers may fail,  *)
(* while being promoted to owner and demoted.                              *)
(***************************************************************************)
RateArgs == { [n |-> 1, qlen |-> 6, tok |-> "hello", isGroup |-> TRUE] }

NextRate ==
    \/ \E name \in {"ping", "ai"}, args \in RateArgs,
          o \in {<<"ok", TRUE>>, <<"throw", TRUE>>} :
          Bounded(MaxRateUsage, MaxRateErrors, o[1], o[2]) /\ Dispatch("u1", name, args, o[1], o[2])
    \/ addOwner("u1") \/ removeOwner("u1")
    \/ Advance(30000, MaxRateTime)

SpecRate == Init /\ [][NextRate]_vars

(***************************************************************************)
(* The moderation of one member's messages in the protected group, while   *)
(* the group's mode and modules are reconfigured.                          *)
(***************************************************************************)
DefenseMessages == {"long300", "long600", "long1001", "longlink", "runlink"}

\* statistics and tracker stay within the model's bounds
BoundedDefense(mv, mt) ==
    /\ violations["antiVirtex"] + violations["antiToxic"] + violations["antiLink"]
          + violations["antiSpam"] < mv
    /\ \A u \in Users : Len(messageTracker[u]) < mt

NextDefense ==
    \/ \E id \in DefenseMessages, tx \in BOOLEAN :
          BoundedDefense(MaxViolations, MaxTracked) /\ handleMessage("u1", id, tx)
    \/ addProtected("g1")
    \/ \E name \in {"antiVirtex", "antiLink"}, value \in BOOLEAN :
          updateGroupSetting(name, value)
    \/ \E mode \in Modes : setDefenseMode("g1", mode)
    \/ removeMute("u1")

SpecDefense == Init /\ [][NextDefense]_vars

(***************************************************************************)
(* Runs of one character: a member sends messages with runs below, at and  *)
(* above the virtex module's threshold while the group's mode and modules  *)
(* are reconfigured.                                                       *)
(***************************************************************************)
FloodMessages == {"run12", "run49", "run50", "run60"}

NextFlood ==
    \/ \E id \in FloodMessages, tx \in BOOLEAN :
          BoundedDefense(MaxViolations, MaxTracked) /\ handleMessage("u1", id, tx)
    \/ addProtected("g1")
    \/ \E name \in {"antiVirtex", "antiSpam"}, value \in BOOLEAN :
          updateGroupSetting(name, value)
    \/ \E mode \in Modes : setDefenseMode("g1", mode)
    \/ removeMute("u1")

SpecFlood == Init /\ [][NextFlood]_vars

(***************************************************************************)
(* The virtex module's pattern regexes: a member sends messages with and   *)
(* without zero-width characters while the module is switched on and off.  *)
(***************************************************************************)
PatternMessages == {"hi", "zw5", "invis20"}

NextPattern ==
    \/ \E id \in PatternMessages, tx \in BOOLEAN :
          BoundedDefense(MaxViolations, MaxTracked) /\ handleMessage("u1", id, tx)
    \/ addProtected("g1")
    \/ \E value \in BOOLEAN : updateGroupSetting("antiVirtex", value)
    \/ \E mode \in Modes : setDefenseMode("g1", mode)

SpecPattern == Init /\ [][NextPattern]_vars

(***************************************************************************)
(* Links and oversized messages with a transport that always works, in     *)
(* every mode of the group.                                                *)
(***************************************************************************)
LinkMessages == {"hi", "link", "long300", "toxic", "toxiclink"}

NextLink ==
    \/ \E id \in LinkMessages :
          BoundedDefense(MaxViolations, MaxTracked) /\ handleMessage("u1", id, TRUE)
    \/ addProtected("g1")
    \/ \E value \in BOOLEAN : updateGroupSetting("antiLink", value)
    \/ \E mode \in Modes : setDefenseMode("g1", mode)
    \/ removeMute("u1")

SpecLink == Init /\ [][NextLink]_vars

(***************************************************************************)
(* Command messages in a private chat, from the author and a member who is *)
(* promoted, blacklisted and disabled, in both bot modes; the transport    *)
(* works.                                                                  *)
(***************************************************************************)
PrivateArgs ==
    { [n |-> 0, qlen |-> 0, tok |-> "", isGroup |-> FALSE],
      [n |-> 1, qlen |-> 6, tok |-> "strict", isGroup |-> FALSE] }

NextCommand ==
    \/ \E u \in {"a", "u1"}, name \in {"ping", "defense", "groupinfo", "nope"},
          args \in PrivateArgs, h \in {"ok", "throw"} :
          Bounded(MaxUsage, MaxErrors, h, TRUE) /\ handleCommandMessage(u, name, args, h, TRUE)
    \/ addOwner("u1") \/ removeOwner("u1")
    \/ addBlacklist("u1") \/ removeBlacklist("u1")
    \/ addDisabled("u1") \/ removeDisabled("u1")
    \/ \E m \in {"PUBLIC", "SELF"} : setBotMode(m)
    \/ Advance(10000, MaxTime)

SpecCommand == Init /\ [][NextCommand]_vars

(***************************************************************************)
(* The length check under the configurations the bot can be started with:  *)
(* a member sends messages of 2, 60, 300 and 600 characters.               *)
(***************************************************************************)
ConfiguredLengths == {0, 50, 250, 500}

LengthMessages == {"hi", "emoji30", "long300", "long600"}

InitLength ==
    /\ InitData
    /\ maxLength \in {settingsMaxLength(configured) : configured \in ConfiguredLengths}

NextLength ==
    \/ \E id \in LengthMessages, tx \in BOOLEAN :
          BoundedDefense(MaxViolations, MaxTracked) /\ handleMessage("u1", id, tx)
    \/ addProtected("g1")
    \/ \E mode \in Modes : setDefenseMode("g1", mode)

SpecLength == InitLength /\ [][NextLength]_vars

(***************************************************************************)
(* The command registry: commands are registered again, under their own    *)
(* names and under names that are aliases, with changing alias lists.      *)
(***************************************************************************)
RegisterNames == {"ping", "info-grup", "groupinfo"}

RegisterAliases == {{}, {"groupinfo"}, {"infogrup"}, {"groupinfo", "infogrup"}}

NextRegistry ==
    \/ \E name \in RegisterNames, role \in {"user", "owner"}, als \in RegisterAliases :
          name \notin als /\ register(name, role, als)
    \/ reload

SpecRegistry == Init /\ [][NextRegistry]_vars

(***************************************************************************)
(* The two sliding windows: one member sending commands and messages in    *)
(* the protected group while time passes in steps of ten seconds.          *)
(***************************************************************************)
WindowMessages == {"hi", "run12"}

NextWindow ==
    \/ Bounded(MaxUsage, MaxErrors, "throw", TRUE)
          /\ Dispatch("u1", "ping", NoArgs, "throw", TRUE)
    \/ \E id \in WindowMessages, tx \in BOOLEAN :
          BoundedDefense(MaxViolations, MaxTracked) /\ handleMessage("u1", id, tx)
    \/ addProtected("g1")
    \/ Advance(10000, MaxRateTime)

SpecWindow == Init /\ [][NextWindow]_vars

(***************************************************************************)
(* Member joins in the group while its settings, the blacklist and the     *)
(* owner list change.                                                      *)
(***************************************************************************)
NextJoin ==
    \/ \E p \in {"u1", "u2"}, meta \in BOOLEAN, tx \in BOOLEAN :
          violations["geoRestriction"] < MaxViolations /\ handleMemberJoin(p, meta, tx)
    \/ addProtected("g1")
    \/ \E name \in {"welcome", "geoRestriction"}, value \in BOOLEAN :
          updateGroupSetting(name, value)
    \/ addOwner("u2") \/ removeOwner("u2")
    \/ addBlacklist("u2") \/ removeBlacklist("u2")

SpecJoin == Init /\ [][NextJoin]_vars

(***************************************************************************)
(* The message pipeline for one member whose role, list membership and     *)
(* mute change, under both bot modes.                                      *)
(***************************************************************************)
PipelineMessages == {"hi", "long300", "run12"}

NextPipeline ==
    \/ \E id \in PipelineMessages, tx \in BOOLEAN :
          BoundedDefense(MaxViolations, MaxTracked) /\ handleMessage("u1", id, tx)
    \/ addProtected("g1")
    \/ addOwner("u1") \/ removeOwner("u1")
    \/ addBlacklist("u1") \/ removeBlacklist("u1")
    \/ addDisabled("u1") \/ removeDisabled("u1")
    \/ \E m \in {"PUBLIC", "SELF"} : setBotMode(m)
    \/ removeMute("u1")

SpecPipeline == Init /\ [][NextPipeline]_vars

(***************************************************************************)
(* Properties.  last is the outcome of the dispatch that led to the        *)
(* current state; the role sets, lists and bot mode of that state are      *)
(* those the dispatch has read.                                            *)
(***************************************************************************)
PrivilegedRoles == {"owner", "author"}

\* last is the dispatch of command c (registered) by plain member u
PlainMemberDispatch(u, c) ==
    /\ last.user = u /\ last.cmd = c
    /\ ~isAuthorOrOwner(u)

\* C1 (as the code has it): a user in neither the author nor the owner set is
\* never authorized for Owner or Author, and a dispatch of an Owner/Author
\* command on behalf of such a user returns false, stops at the authorization
\* step without running the handler, and sends the reason of the first failing
\* authorization check: disabled, blacklisted, self mode, and only otherwise
\* insufficient role.
C1_PlainMemberDenied ==
    \A u \in Users : ~isAuthorOrOwner(u) =>
        /\ \A r \in PrivilegedRoles :
              /\ ~checkRole(u, r).authorized
              /\ ~checkAuth(u, r).authorized
        /\ \A c \in Commands :
              (commandRole(c) \in PrivilegedRoles /\ PlainMemberDispatch(u, c)) =>
                  /\ last.result = FALSE
                  /\ last.steps = <<"auth">>
                  /\ Head(last.sent) =
                        IF isDisabled(u) THEN "disabled"
                        ELSE IF isBlacklisted(u) THEN "blacklisted"
                        ELSE IF botMode = "SELF" THEN "self_mode"
                        ELSE "insufficient_role"

\* C1 witness: after role changes (owner granted and revoked again) a plain
\* member's owner command has been refused with the insufficient-role message
C1_Witness ==
    /\ PlainMemberDispatch("u1", "info-grup")
    /\ last.sent = <<"insufficient_role">>
    /\ commandUsage["info-grup"] > 0

\* C1 as stated: the refusal always carries the insufficient-role message
C1_AsStated ==
    \A u \in Users, c \in Commands :
        (commandRole(c) \in PrivilegedRoles /\ PlainMemberDispatch(u, c)) =>
            /\ last.result = FALSE
            /\ last.steps = <<"auth">>
            /\ Head(last.sent) = "insufficient_role"

\* the order in which CommandManager.execute takes its steps
StepOrder == <<"auth", "cooldown", "validation", "rate", "handler", "commit">>

IsPrefix(s, t) == Len(s) <= Len(t) /\ \A i \in 1..Len(s) : s[i] = t[i]

\* the texts that tell the user why a dispatch was refused
VisibleReasons == {"disabled", "blacklisted", "self_mode", "insufficient_role",
                   "cooldown", "validation", "rate_limit"}

\* C2 as stated: a dispatch of a registered command takes its steps in the
\* order authorization, cooldown, validation, rate budget, handler; the first
\* failing step sends a visible reason and the dispatch returns false with no
\* later step taken; a rejection before the rate step leaves the rate window
\* unchanged.
C2_AsStated ==
    [][ (last'.user # "" /\ last'.cmd \in Commands) =>
          /\ Len(last'.steps) >= 1
          /\ IsPrefix(last'.steps, StepOrder)
          /\ last'.result = (last'.steps = StepOrder)
          /\ Len(last'.steps) <= 4 => Head(last'.sent) \in VisibleReasons
          /\ Len(last'.steps) <= 3 => globalCooldowns' = globalCooldowns
      ]_vars

\* C6 (as the code has it): a successful invocation by a non-exempt user
\* commits the command's cooldown, the entry stays as it is until it expires,
\* and an invocation of the same command by that user before the expiry never
\* runs the handler and returns false; it is refused with the remaining-time
\* message provided the user still passes the authorization step.
C6_SecondInvocationRejected ==
    [][ /\ \A u \in Users, c \in Commands :
              cooldowns[u][c] > now => cooldowns'[u][c] = cooldowns[u][c]
        /\ \A u \in Users, c \in Commands :
              (last'.user = u /\ last'.cmd = c /\ ~isAuthorOrOwner(u)) =>
                  /\ last'.result =>
                        cooldowns'[u][c] = now + getCooldownDuration(c) * 1000
                  /\ cooldowns[u][c] > now =>
                        /\ last'.result = FALSE
                        /\ "handler" \notin {last'.steps[i] : i \in 1..Len(last'.steps)}
                        /\ checkAuth(u, commandRole(c)).authorized =>
                              /\ last'.steps = <<"auth", "cooldown">>
                              /\ Head(last'.sent) = "cooldown"
                              /\ last'.remaining = cooldowns[u][c] - now
                              /\ last'.remaining > 0
      ]_vars

\* C6 witness: ten seconds after a successful ping, the member's second ping
\* has been refused with ten seconds remaining
C6_Witness ==
    /\ last.user = "u1" /\ last.cmd = "ping"
    /\ last.steps = <<"auth", "cooldown">>
    /\ last.sent = <<"cooldown">>
    /\ last.remaining = 10000
    /\ commandUsage["ping"] > 0

\* C6 as stated: every invocation inside the cooldown window is refused with
\* the remaining-time message
C6_AsStated ==
    [][ \A u \in Users, c \in Commands :
          (last'.user = u /\ last'.cmd = c /\ ~isAuthorOrOwner(u)
             /\ cooldowns[u][c] > now) =>
              /\ last'.result = FALSE
              /\ last'.steps = <<"auth", "cooldown">>
              /\ Head(last'.sent) = "cooldown"
      ]_vars

\* the duration the configuration gives a command, in seconds
ConfiguredDuration(c) == IF c = "ai" THEN 30 ELSE IF c = "download-music" THEN 60 ELSE 20

\* C7: for every user and command, isOnCooldown evaluated right after
\* setCooldown with the command's duration returns a positive remaining time
\* of at most the configured duration (override, else default); evaluated at
\* or after the expiry it returns 0, and so does every later evaluation,
\* whether or not the expired entry has been removed by an earlier one.
C7_CooldownRemaining ==
    /\ \A u \in Users, c \in Commands :
          LET committed == setCooldown(cooldowns, now, u, c, getCooldownDuration(c))
              remaining == isOnCooldown(committed, now, u, c)
              expiry    == committed[u][c]
          IN  /\ remaining > 0
              /\ remaining <= ConfiguredDuration(c) * 1000
              /\ \A t \in {expiry, expiry + 1, expiry + 10000} :
                    /\ isOnCooldown(committed, t, u, c) = 0
                    /\ \A t2 \in {t, t + 10000} :
                          isOnCooldown(cooldownsAfterRead(committed, t, u, c), t2, u, c) = 0
    /\ \A u \in Users, c \in Commands :
          (cooldowns[u][c] # 0 /\ now >= cooldowns[u][c]) =>
              /\ isOnCooldown(cooldowns, now, u, c) = 0
              /\ isOnCooldown(cooldownsAfterRead(cooldowns, now, u, c), now, u, c) = 0
    /\ (last.result /\ ~isAuthorOrOwner(last.user)) =>
          /\ isOnCooldown(cooldowns, now, last.user, last.cmd) > 0
          /\ isOnCooldown(cooldowns, now, last.user, last.cmd)
                <= ConfiguredDuration(last.cmd) * 1000

\* C7 witness: the member's "ai" cooldown (override, 30 s) has been committed
\* and has expired, the entry still being stored
C7_Witness ==
    /\ cooldowns["u1"]["ai"] = 30000
    /\ now = 30000
    /\ isOnCooldown(cooldowns, now, "u1", "ai") = 0

\* C10: when the handler throws, the dispatch returns false after trying to
\* send the error text and logging the error; it commits no cooldown (no entry
\* is set or extended), so that the user is not on cooldown for the command
\* afterwards and a later dispatch of it is not refused by the cooldown step.
C10_HandlerThrows ==
    [][ last'.steps = <<"auth", "cooldown", "validation", "rate", "handler">> =>
          /\ last'.result = FALSE
          /\ last'.sent = <<"error">>
          /\ errorLog' = logError(errorLog)
          /\ commandUsage' = commandUsage
          /\ \A u \in Users, c \in Commands :
                cooldowns'[u][c] = cooldowns[u][c] \/ cooldowns'[u][c] = 0
          /\ ~isAuthorOrOwner(last'.user) =>
                isOnCooldown(cooldowns', now', last'.user, last'.cmd) = 0
      ]_vars

\* C10 witness: a member's ping handler has thrown after an earlier dispatch
\* had succeeded, and the statistics of that earlier success are intact
C10_Witness ==
    /\ last.user = "u1" /\ last.cmd = "ping"
    /\ last.steps = <<"auth", "cooldown", "validation", "rate", "handler">>
    /\ cooldowns["u1"]["ping"] = 0
    /\ commandUsage["info-grup"] = 1

\* number of entries of the time sequence ts in the interval (lo, hi]
countWithin(ts, lo, hi) ==
    Cardinality({i \in 1..Len(ts) : lo < ts[i] /\ ts[i] <= hi})

\* the times worth looking at: now, and for each entry its own time and the
\* last millisecond at which it still counts
TimesOf(ts) ==
    {now} \cup {ts[i] : i \in 1..Len(ts)} \cup {ts[i] + 59999 : i \in 1..Len(ts)}

\* C9: for every user and time T, at most 10 dispatches made as a
\* non-privileged user have passed the rate check in the 60 seconds ending at
\* T (the window (T - 60 s, T]), whatever commands they named and whatever
\* the cooldown state; a dispatch that finds 10 passes in the window is
\* refused at the rate step, with the rate-limit message.
C9_RateBudget ==
    /\ \A u \in Users : \A T \in TimesOf(inserted[u]) :
          countWithin(inserted[u], T - 60000, T) <= 10
    /\ last.steps = <<"auth", "cooldown", "validation", "rate">> =>
          /\ last.result = FALSE
          /\ Head(last.sent) = "rate_limit"
          /\ countWithin(inserted[last.user], now - 60000, now) = 10
    /\ (Len(last.steps) >= 5 /\ ~isAuthorOrOwner(last.user)) =>
          /\ inserted[last.user] # <<>>
          /\ inserted[last.user][Len(inserted[last.user])] = now

\* C9 witness: with ten passes in the window, one of them a ping that
\* succeeded and is on cooldown, the member's "ai" command has been refused
\* by the rate step
C9_Witness ==
    /\ last.user = "u1" /\ last.cmd = "ai"
    /\ last.steps = <<"auth", "cooldown", "validation", "rate">>
    /\ countWithin(inserted["u1"], now - 60000, now) = 10
    /\ cooldowns["u1"]["ping"] > now
    /\ commandUsage["ping"] > 0

\* C3: a warn action raises the user's warning count by one; the first two
\* of three consecutive warns leave the counts 1 and 2 and kick nobody, the
\* third asks for the user's kick once and leaves the count 0; no other moderation step
\* changes the count, which never rests at 3.
C3_WarnEscalation ==
    [][ /\ \A u \in Users : warned'[u] \in 0..2
        /\ lastV'.action # "warn" => warned' = warned
        /\ lastV'.action = "warn" =>
              LET u == lastV'.user
              IN  /\ lastV'.warnCount = warned[u] + 1
                  /\ \A v \in Users \ {u} : warned'[v] = warned[v]
                  /\ IF warned[u] = 2
                     THEN lastV'.kicks = 1 /\ warned'[u] = 0
                     ELSE lastV'.kicks = 0 /\ warned'[u] = warned[u] + 1
      ]_vars

\* C3 witness: the member's third consecutive warn (three oversized
\* messages in NORMAL mode) has kicked the member and reset the count
C3_Witness ==
    /\ lastV.user = "u1" /\ lastV.action = "warn"
    /\ lastV.warnCount = 3 /\ lastV.kicks = 1
    /\ warned["u1"] = 0
    /\ violations["antiVirtex"] = 3

\* the priority the engine is meant to give the modules
Priority(name) ==
    CASE name = "antiVirtex" -> 1
      [] name = "antiToxic" -> 2
      [] name = "antiLink" -> 3
      [] name = "antiSpam" -> 4

\* the enabled modules whose detector answers positively to message id of
\* user u in the current state
Detecting(u, id) ==
    {name \in {"antiVirtex", "antiToxic", "antiLink", "antiSpam"} :
        /\ enabled[name]
        /\ runModuleDetection(name, u, id,
                              [lastIndex |-> lastIndex, messages |-> messageTracker[u],
                               pushed |-> FALSE]).verdict.detected}

\* the engine examines the message of u in the current state
Examined(u) ==
    /\ "g1" \in protected
    /\ ~isBlacklisted(u) /\ ~isDisabled(u) /\ ~(botMode = "SELF" /\ ~isAuthor(u))
    /\ ~isMuted(u) /\ ~isAuthorOrOwner(u)

\* C4: for every examined message at most one module's handler runs: none
\* when no enabled module detects it, otherwise the handler of the
\* detecting enabled module of highest priority (virtex, toxic, link, spam),
\* and no module after it has evaluated the message.
C4_ModulePriority ==
    [][ (lastV'.user # "" /\ Examined(lastV'.user)) =>
          LET D == Detecting(lastV'.user, lastV'.msg)
          IN  /\ Len(lastV'.ran) <= 1
              /\ D = {} => lastV'.ran = <<>> /\ ~lastV'.blocked
              /\ D # {} =>
                    /\ lastV'.blocked
                    /\ Len(lastV'.ran) = 1
                    /\ lastV'.ran[1] \in D
                    /\ \A name \in D : Priority(lastV'.ran[1]) <= Priority(name)
                    /\ lastV'.ran[1] # "antiSpam" => messageTracker' = messageTracker
      ]_vars

\* C4 witness: an oversized message with a link, all modules enabled, has
\* been handled by the virtex module alone
C4_Witness ==
    /\ lastV.msg = "longlink"
    /\ lastV.ran = <<"antiVirtex">>
    /\ enabled["antiLink"] /\ enabled["antiSpam"]
    /\ violations["antiLink"] = 0

\* C5 as stated: in the group's mode every module chooses the same action for
\* the same severity (the link module for the severity its mode
\* configuration names), and a critical verdict yields kick.
C5_AsStated ==
    LET mode == modeOf("g1")
    IN  /\ \A severity \in {"low", "medium", "high"} :
              antiVirtexDetermineAction(severity, mode)
                = antiToxicDetermineAction(severity, mode)
        /\ antiLinkModeConfig(mode).action
              = antiVirtexDetermineAction(antiLinkModeConfig(mode).severity, mode)
        /\ antiVirtexDetermineAction("critical", mode) = "kick"
        /\ (lastV.ran # <<>> /\ lastV.severity = "critical") => lastV.action = "kick"

\* number of entries of the time sequence ts in the interval [lo, hi]
countWithinClosed(ts, lo, hi) ==
    Cardinality({i \in 1..Len(ts) : lo <= ts[i] /\ ts[i] <= hi})

\* what the rate window of user u reports when read at the current time
rateWindowCount(u) == Len(filterRecent(globalCooldowns[u], now, timeWindow))

\* what the message window of user u reports when read at the current time
spamWindowCount(u) == Len(filterMessages(messageTracker[u], now, antiSpamTime * 1000))

\* C8 (as the code has it): at every time T the rate window of a user reports
\* the number of that user's inserted entries with a timestamp in the
\* half-open interval (T - 60 s, T], and the message window the number of
\* entries inserted since it was last cleared with a timestamp in
\* (T - 10 s, T]; an entry exactly one window old is not counted.
C8_WindowCount ==
    \A u \in Users :
        /\ rateWindowCount(u) = countWithin(inserted[u], now - timeWindow, now)
        /\ spamWindowCount(u)
              = countWithin(tracked[u], now - antiSpamTime * 1000, now)

\* C8 witness: entries exactly one window old (a pass at 0 read at 60 s, a
\* message at 50 s read at 60 s) have been dropped by the reads at 60 s
C8_Witness ==
    /\ now = 60000
    /\ inserted["u1"] = <<0, 60000>>
    /\ globalCooldowns["u1"] = <<60000>>
    /\ tracked["u1"] = <<50000, 60000>>
    /\ Len(messageTracker["u1"]) = 1

\* C8 as stated: the windows report the number of inserted entries with a
\* timestamp in the closed interval [T - window, T].
C8_AsStated ==
    \A u \in Users :
        /\ rateWindowCount(u) = countWithinClosed(inserted[u], now - timeWindow, now)
        /\ spamWindowCount(u)
              = countWithinClosed(tracked[u], now - antiSpamTime * 1000, now)

\* the join of participant p is one the geographic restriction applies to
GeoRestricted(p) ==
    /\ "g1" \in protected /\ enabled["geoRestriction"]
    /\ ~isAuthorOrOwner(p)
    /\ phoneNumber(p) \notin geoWhitelist
    /\ ~\E i \in 1..Len(allowedCountries) : startsWith(phoneNumber(p), allowedCountries[i])

\* C11 as stated: in a protected group with geographic restriction enabled a
\* joining participant who is neither author nor owner nor allow-listed and
\* whose number has a disallowed prefix is removed, and a notice naming the
\* detected country is posted, whatever the other settings of the group.
C11_AsStated ==
    (lastV.msg = "join" /\ GeoRestricted(lastV.user)) =>
        /\ lastV.kicks = 1
        /\ lastV.notice
        /\ lastV.country = getCountryFromNumber(phoneNumber(lastV.user))

\* C12 as stated: the message pipeline applies no moderation action
\* (deletion, warn, mute, kick) to a message of a user who is author or owner
\* when it is processed, whatever happened before.
C12_AsStated ==
    (lastV.user # "" /\ lastV.msg # "join" /\ isAuthorOrOwner(lastV.user)) =>
        /\ ~lastV.deleted
        /\ lastV.action = "none"
        /\ lastV.kicks = 0 /\ lastV.warnCount = 0

\* C13 as stated: a message in a protected group whose sender is neither
\* author nor owner is evaluated by the engine, whatever the bot mode is; the
\* engine evaluates no message of an unprotected group or of an author or
\* owner.  Stated here for senders that are not blacklisted, disabled or
\* muted, whose messages the handler drops before the engine in any mode.
C13_AsStated ==
    (/\ lastV.user # "" /\ lastV.msg # "join"
     /\ ~isBlacklisted(lastV.user) /\ ~isDisabled(lastV.user) /\ ~isMuted(lastV.user)) =>
        (lastV.checked <=> ("g1" \in protected /\ ~isAuthorOrOwner(lastV.user)))

\* the roles a command can require
Roles == {"user", "owner", "author"}

\* the reason of the first authorization check that refuses a non-author in SELF mode
SelfModeReason(u) ==
    IF isDisabled(u) THEN "disabled"
    ELSE IF isBlacklisted(u) THEN "blacklisted"
    ELSE "self_mode"

\* C14 (as the code has it): while the bot mode is SELF, checkAuth refuses
\* every user who is not the author, owners included, for every required
\* role, and a dispatch on behalf of such a user stops at the authorization
\* step, returns false and runs no handler; the reason is self_mode unless the
\* user is disabled or blacklisted, whose reason comes first.
C14_SelfModeDenied ==
    botMode = "SELF" =>
        /\ \A u \in Users, r \in Roles :
              ~isAuthor(u) =>
                  /\ ~checkAuth(u, r).authorized
                  /\ checkAuth(u, r).reason = SelfModeReason(u)
        /\ (last.user # "" /\ ~isAuthor(last.user)) =>
              /\ last.result = FALSE
              /\ \A i \in 1..Len(last.steps) : last.steps[i] # "handler"
              /\ last.cmd \in Commands =>
                    /\ last.steps = <<"auth">>
                    /\ Head(last.sent) = SelfModeReason(last.user)

\* C14 witness: in SELF mode an owner's owner command has been refused with
\* the self-mode reason
C14_Witness ==
    /\ botMode = "SELF"
    /\ last.user = "u1" /\ "u1" \in owners
    /\ last.cmd = "info-grup"
    /\ last.steps = <<"auth">>
    /\ last.sent = <<"self_mode">>

\* C14 as stated: in SELF mode every non-author is refused with the
\* self-mode reason
C14_AsStated ==
    botMode = "SELF" =>
        /\ \A u \in Users, r \in Roles :
              ~isAuthor(u) =>
                  /\ ~checkAuth(u, r).authorized
                  /\ checkAuth(u, r).reason = "self_mode"
        /\ (last.user # "" /\ ~isAuthor(last.user) /\ last.cmd \in Commands) =>
              /\ last.steps = <<"auth">>
              /\ Head(last.sent) = "self_mode"

\* C15: checkAuth tests disabled, blacklisted, SELF mode and role rank in
\* that order and returns the reason of the first test that fails: disabled
\* wins over blacklisted, blacklisted over SELF mode and over a missing role;
\* it authorizes exactly when none fails, and a dispatch refused at the
\* authorization step sends that reason.
C15_AuthOrder ==
    /\ \A u \in Users, r \in Roles :
          LET res == checkAuth(u, r)
              selfRefuses == botMode = "SELF" /\ ~isAuthor(u)
              roleRefuses == roleHierarchy(userRoleOf(u)) < roleHierarchy(r)
          IN  /\ isDisabled(u) => res.reason = "disabled"
              /\ (~isDisabled(u) /\ isBlacklisted(u)) => res.reason = "blacklisted"
              /\ (~isDisabled(u) /\ ~isBlacklisted(u) /\ selfRefuses) =>
                    res.reason = "self_mode"
              /\ (~isDisabled(u) /\ ~isBlacklisted(u) /\ ~selfRefuses /\ roleRefuses) =>
                    res.reason = "insufficient_role"
              /\ res.authorized <=>
                    (~isDisabled(u) /\ ~isBlacklisted(u) /\ ~selfRefuses /\ ~roleRefuses)
    /\ last.steps = <<"auth">> =>
          /\ isDisabled(last.user) => Head(last.sent) = "disabled"
          /\ (~isDisabled(last.user) /\ isBlacklisted(last.user)) =>
                Head(last.sent) = "blacklisted"

\* C15 witness: a member who is both disabled and blacklisted, in SELF mode,
\* has been refused an owner command with the reason disabled
C15_Witness ==
    /\ last.user = "u1" /\ last.cmd = "info-grup"
    /\ "u1" \in disabled /\ "u1" \in blacklisted /\ botMode = "SELF"
    /\ last.steps = <<"auth">>
    /\ last.sent = <<"disabled">>

\* C16: for a user who is author or owner the cooldown check never refuses a
\* command, even when an entry of that user from before the role is still
\* running, and a dispatch by such a user, successful or not, leaves the
\* cooldown table as it was: no entry is created or extended.
C16_PrivilegedExempt ==
    [][ /\ \A u \in Users, c \in Commands :
              isAuthorOrOwner(u) =>
                  /\ ~checkCooldown(u, c).onCooldown
                  /\ applyCooldown(cooldowns, u, c) = cooldowns
        /\ (last'.user # "" /\ last'.cmd \in Commands /\ isAuthorOrOwner(last'.user)) =>
              /\ last'.steps # <<"auth", "cooldown">>
              /\ cooldowns' = cooldowns
      ]_vars

\* C16 witness: a member's ping succeeded and set a cooldown; made owner, the
\* same user's next ping inside the window has succeeded too
C16_Witness ==
    /\ last.user = "u1" /\ "u1" \in owners
    /\ last.cmd = "ping" /\ last.result
    /\ cooldowns["u1"]["ping"] = 20000
    /\ now = 0
    /\ commandUsage["ping"] = 2

\* C17 as stated: in NORMAL mode a verdict of severity low, medium or high
\* yields warn in every module, and a handled message mutes or kicks its
\* sender only on a critical verdict or as the kick of the third warning.
C17_AsStated ==
    /\ \A severity \in {"low", "medium", "high"} :
          /\ antiVirtexDetermineAction(severity, "NORMAL") = "warn"
          /\ antiToxicDetermineAction(severity, "NORMAL") = "warn"
    /\ antiLinkModeConfig("NORMAL").action = "warn"
    /\ (lastV.ran # <<>> /\ lastV.mode = "NORMAL") =>
          /\ lastV.action = "mute" => lastV.severity = "critical"
          /\ muted[lastV.user] = 0
          /\ lastV.kicks = 1 =>
                \/ lastV.severity = "critical"
                \/ lastV.action = "warn" /\ lastV.warnCount >= maxWarn

\* C18 as stated: in STRICT mode a verdict of severity low yields warn and
\* one of severity medium or high yields a mute of the fixed ten minutes, in
\* every module.
C18_AsStated ==
    /\ antiToxicDetermineAction("low", "STRICT") = "warn"
    /\ \A severity \in {"medium", "high"} :
          antiToxicDetermineAction(severity, "STRICT") = "mute"
    /\ antiLinkModeConfig("STRICT") = [action |-> "mute", severity |-> "medium"]
    /\ (lastV.ran # <<>> /\ lastV.mode = "STRICT") =>
          /\ lastV.severity = "low" => lastV.action = "warn"
          /\ lastV.severity \in {"medium", "high"} =>
                /\ lastV.action = "mute"
                /\ muted[lastV.user] = now + 10 * 60 * 1000

\* C19 as stated: in LOCKDOWN mode a verdict of severity low yields warn and
\* one of severity medium or high yields kick, in every module.
C19_AsStated ==
    /\ modeOf("g1") = "LOCKDOWN" =>
          /\ antiVirtexDetermineAction("low", modeOf("g1")) = "warn"
          /\ antiToxicDetermineAction("low", modeOf("g1")) = "warn"
          /\ \A severity \in {"medium", "high"} :
                /\ antiVirtexDetermineAction(severity, modeOf("g1")) = "kick"
                /\ antiToxicDetermineAction(severity, modeOf("g1")) = "kick"
          /\ antiLinkModeConfig(modeOf("g1")) = [action |-> "kick", severity |-> "high"]
    /\ (lastV.ran # <<>> /\ lastV.mode = "LOCKDOWN") =>
          /\ lastV.severity = "low" => lastV.action = "warn"
          /\ lastV.severity \in {"medium", "high"} =>
                lastV.action = "kick" /\ lastV.kicks = 1

C21_AsStated ==
    \A id \in PatternMessages :
        /\ antiVirtexDetect(Message(id), lastIndex).verdict
              = antiVirtexDetect(Message(id), [p \in 1..4 |-> 0]).verdict
        /\ antiToxicDetect(Message(id)) = NotDetected
        /\ antiLinkDetect(Message(id)).detected = (Message(id).links > 0)

\* C22 as stated: whenever a module detects a violation in a message, the
\* handling asks the transport to delete that message, whichever module it
\* is, the spam module included.
C22_AsStated ==
    lastV.ran # <<>> => lastV.deleted

\* C23 as stated: every step that applies a warn, mute or kick raises the
\* violation counter of the module that applied it by exactly one and leaves
\* the other counters alone.
C23_AsStated ==
    [][ (lastV'.ran # <<>> /\ lastV'.action \in {"warn", "mute", "kick"}) =>
          violations' = [violations EXCEPT ![lastV'.ran[1]] = @ + 1]
      ]_vars

\* C24 as stated: every handled violation posts a moderation notice to the
\* group, whichever module handled it and whatever the action was.
C24_AsStated ==
    (lastV.ran # <<>> /\ lastV.action \in {"warn", "mute", "kick"}) => lastV.notice

\* C25 as stated: a command message that is refused before its handler runs
\* is answered with exactly one message, whatever refused it; only a message
\* naming no registered command is dropped without an answer.
C25_AsStated ==
    (last.user # "" /\ "handler" \notin {last.steps[i] : i \in 1..Len(last.steps)}) =>
        IF last.cmd \in Commands THEN Len(last.sent) = 1 ELSE last.sent = <<>>

\* C26 as stated: handling a violation leaves the same record when the
\* transport fails as when it works: the warning counts, the mute of the
\* sender and the violation counters after the step are those that the
\* handling with a working transport writes.
C26_AsStated ==
    [][ (lastV'.user # "" /\ Examined(lastV'.user)) =>
          LET u == lastV'.user
              r == runModules(ModuleOrder, u, lastV'.msg, 1,
                              [lastIndex |-> lastIndex, messages |-> messageTracker[u],
                               pushed |-> FALSE])
              e == handleViolation(r.module, u, r.verdict, TRUE)
          IN  /\ warned' = e.warned
              /\ e.muted # muted => muted' = e.muted
              /\ violations' = e.violations
      ]_vars

C28_AsStated ==
    [][ (lastV'.user # "" /\ lastV'.msg # "join" /\ "g1" \in protected) =>
          IF muted[lastV'.user] > now
          THEN lastV'.deleted /\ ~lastV'.checked /\ lastV'.ran = <<>>
          ELSE lastV'.deleted => lastV'.ran # <<>>
      ]_vars

\* C29 as stated: whatever maximum the bot is configured with, an examined
\* message longer than that maximum is detected by the virtex module's
\* length check with severity medium, high or critical.
C29_AsStated ==
    [][ (/\ lastV'.user # "" /\ Examined(lastV'.user)
         /\ enabled["antiVirtex"]
         /\ Message(lastV'.msg).len > maxLength) =>
          /\ checkLength(Message(lastV'.msg)).detected
          /\ lastV'.ran = <<"antiVirtex">>
          /\ lastV'.severity \in {"medium", "high", "critical"}
      ]_vars

\* C30 as stated: after any registrations, a name under which a command was
\* registered resolves to the command last registered under it, an alias
\* resolves to the command that declared it with its last registration, and
\* every other name resolves to nothing.
C30_AsStated ==
    \A n \in CommandNames :
        LET declaring == {c \in CommandNames : commands[c] # NoCommand /\ n \in declared[c]}
        IN  IF commands[n] # NoCommand
            THEN get(commands, aliases, n) = commands[n]
            ELSE IF declaring # {}
            THEN get(commands, aliases, n) \in {commands[c] : c \in declaring}
            ELSE get(commands, aliases, n) = NoCommand /\ ~has(commands, aliases, n)

(***************************************************************************)
(* Calls in flight.  The listeners of BotCore.setupEventHandlers are async *)
(* functions whose promises nobody awaits: the handler of one event runs   *)
(* until its next await of an I/O call (db.write, a send, a kick) and the  *)
(* handlers of other events run in between.  A call in flight holds a slot *)
(* of pending with its position and its local variables.                   *)
(***************************************************************************)
moderationRest == <<protected, enabled, violations, messageTracker, tracked, lastIndex, maxLength, commands, aliases, declared>>

\* ownerCommands.warn up to the await inside db.addWarn: the count is read,
\* raised and stored, and kept in the local warnCount
warn(t, u) ==
    /\ pending[t] = Idle
    /\ ~isAuthorOrOwner(u)
    /\ warned' = [warned EXCEPT ![u] = @ + 1]
    /\ warnEvents' = [warnEvents EXCEPT ![u] = @ + 1]
    /\ pending' = [pending EXCEPT ![t] = [Idle EXCEPT !.kind = "warn", !.pc = "addWarn",
                                                      !.user = u, !.count = warned[u] + 1]]
    /\ UNCHANGED <<muted, kicked, broadcasting>>
    /\ UNCHANGED commandFrame /\ UNCHANGED moderationRest
    /\ last' = NoLast /\ lastV' = NoLastV

\* ownerCommands.warn after db.addWarn has returned: at the maximum the kick
\* is requested, below it the notice is sent and the call ends
warnKickParticipant(t) ==
    /\ pending[t].kind = "warn" /\ pending[t].pc = "addWarn"
    /\ IF pending[t].count >= maxWarn
       THEN /\ kicked' = [kicked EXCEPT ![pending[t].user] = @ + 1]
            /\ pending' = [pending EXCEPT ![t].pc = "kickParticipant"]
       ELSE /\ pending' = [pending EXCEPT ![t] = Idle]
            /\ UNCHANGED kicked
    /\ UNCHANGED <<warned, muted, warnEvents, broadcasting>>
    /\ UNCHANGED commandFrame /\ UNCHANGED moderationRest
    /\ last' = NoLast /\ lastV' = NoLastV

\* ownerCommands.warn after bot.kickParticipant has returned: db.resetWarn
\* deletes the user's entry, then the notice is sent and the call ends
warnResetWarn(t) ==
    /\ pending[t].kind = "warn" /\ pending[t].pc = "kickParticipant"
    /\ warned' = [warned EXCEPT ![pending[t].user] = 0]
    /\ pending' = [pending EXCEPT ![t] = Idle]
    /\ UNCHANGED <<muted, kicked, warnEvents, broadcasting>>
    /\ UNCHANGED commandFrame /\ UNCHANGED moderationRest
    /\ last' = NoLast /\ lastV' = NoLastV

(***************************************************************************)
(* Warn commands for two members, up to three of them in flight at once.   *)
(***************************************************************************)
MaxWarnEvents == 4

NextWarn ==
    \/ \E t \in Tasks, u \in {"u1", "u2"} : warnEvents[u] < MaxWarnEvents /\ warn(t, u)
    \/ \E t \in Tasks : warnKickParticipant(t)
    \/ \E t \in Tasks : warnResetWarn(t)

SpecWarn == Init /\ [][NextWarn]_vars

\* C31 (as stated): events of one user that are processed concurrently leave
\* what some sequential order of them leaves: once no call is in flight, a
\* user warned n times has n mod 3 warnings, every third warning having
\* reset the count
C31_AsStated ==
    (\A t \in Tasks : pending[t] = Idle) =>
        \A u \in Users : warned[u] = warnEvents[u] % maxWarn

\* C32 (as stated): under any interleaving the stored warning count never
\* exceeds the maximum, and a count that reached the maximum leads to one
\* kick before it returns to 0: no two calls have a kick of the same user
\* under way
C32_AsStated ==
    \A u \in Users :
        /\ warned[u] <= maxWarn
        /\ Cardinality({t \in Tasks : pending[t].kind = "warn"
                                       /\ pending[t].pc = "kickParticipant"
                                       /\ pending[t].user = u}) <= 1

(***************************************************************************)
(* CommandManager.execute as a call in flight: the middleware chain runs   *)
(* to the await of command.execute, the handler waits for its I/O, and the *)
(* statistics and the cooldown are written when it has returned.           *)
(***************************************************************************)
\* execute from the alias resolution to the call of the handler (a rejection
\* by a middleware step ends the call as in execute); startTime is kept
executeStart(t, u, name, args, tx) ==
    LET actualCommand == resolve(name)
        passes == /\ actualCommand \in Commands
                  /\ checkAuth(u, commandRole(actualCommand)).authorized
                  /\ ~checkCooldown(u, actualCommand).onCooldown
                  /\ validateCommand(actualCommand, args).valid
                  /\ ~checkGlobalRateLimit(u).limited
    IN
    /\ pending[t] = Idle
    /\ actualCommand # "defense"
    /\ lastV' = NoLastV
    /\ UNCHANGED <<warned, muted, kicked, warnEvents, broadcasting>>
    /\ UNCHANGED moderationRest
    /\ IF passes
       THEN /\ cooldowns' = checkCooldown(u, actualCommand).cooldowns
            /\ globalCooldowns' = [globalCooldowns EXCEPT ![u] = checkGlobalRateLimit(u).window]
            /\ inserted' = IF checkGlobalRateLimit(u).pushed
                           THEN [inserted EXCEPT ![u] = Append(@, now)] ELSE inserted
            /\ pending' = [pending EXCEPT ![t] = [Idle EXCEPT !.kind = "execute",
                                                              !.pc = "handler", !.user = u,
                                                              !.cmd = actualCommand,
                                                              !.at = now]]
            /\ last' = NoLast
            /\ UNCHANGED <<owners, blacklisted, disabled, botMode, commandUsage, errorLog,
                           defenseMode, groupMode, now>>
       ELSE /\ execute(u, name, args, "ok", tx)
            /\ UNCHANGED pending

\* execute after command.execute has returned or thrown: usage statistics
\* and cooldown on success, the error message and the error log otherwise
executeFinish(t, h, tx) ==
    LET u == pending[t].user
        actualCommand == pending[t].cmd
        base == [NoLast EXCEPT !.user = u, !.cmd = actualCommand]
        throws == (h = "throw") \/ ~tx
    IN
    /\ pending[t].kind = "execute" /\ pending[t].pc = "handler"
    /\ pending' = [pending EXCEPT ![t] = Idle]
    /\ lastV' = NoLastV
    /\ UNCHANGED <<warned, muted, kicked, warnEvents, broadcasting>>
    /\ UNCHANGED moderationRest
    /\ IF throws
       THEN /\ last' = [base EXCEPT
                           !.steps = <<"auth", "cooldown", "validation", "rate", "handler">>,
                           !.result = FALSE, !.sent = <<"error">>]
            /\ errorLog' = logError(errorLog)
            /\ UNCHANGED commandUsage
       ELSE /\ last' = [base EXCEPT
                           !.steps = <<"auth", "cooldown", "validation", "rate",
                                       "handler", "commit">>,
                           !.result = TRUE, !.sent = <<"reply">>]
            /\ commandUsage' = [commandUsage EXCEPT ![actualCommand] = @ + 1]
            /\ UNCHANGED errorLog
    /\ cooldowns' = cooldownsAfterHandler(cooldowns, u, actualCommand, throws)
    /\ UNCHANGED <<owners, blacklisted, disabled, botMode, globalCooldowns, defenseMode,
                   groupMode, now, inserted>>

(***************************************************************************)
(* One member sending ping and ai commands, two of them in flight at once, *)
(* while time passes.                                                      *)
(***************************************************************************)
NextInFlight ==
    \/ \E t \in {1, 2}, name \in {"ping", "ai"}, args \in RateArgs :
          executeStart(t, "u1", name, args, TRUE)
    \/ \E t \in {1, 2}, h \in {"ok", "throw"} :
          Bounded(MaxUsage, MaxErrors, h, TRUE) /\ executeFinish(t, h, TRUE)
    \/ Advance(10000, MaxTime)

SpecInFlight == Init /\ [][NextInFlight]_vars

\* C33 (as stated): a handler is not run again for the same command and the
\* same non-exempt user while it is running: two executions under way at
\* once were started at least the command's cooldown apart
C33_AsStated ==
    \A t1 \in Tasks, t2 \in Tasks :
        (/\ t1 # t2
         /\ pending[t1].kind = "execute" /\ pending[t2].kind = "execute"
         /\ pending[t1].user = pending[t2].user /\ pending[t1].cmd = pending[t2].cmd
         /\ ~isAuthorOrOwner(pending[t1].user)
         /\ pending[t1].at <= pending[t2].at)
        => pending[t2].at - pending[t1].at >= getCooldownDuration(pending[t1].cmd) * 1000

(***************************************************************************)
(* Command messages in the group: MessageHandler.handleMessage with the    *)
(* defense engine in front of MessageHandler.handleCommand.                *)
(***************************************************************************)
\* MessageHandler.extractMessageInfo: a body that starts with the prefix is
\* a command, its first word the command name, the other words the arguments
extractMessageInfo(id) ==
    CASE id = ".ping" ->
            [isCommand |-> TRUE, command |-> "ping",
             args |-> [n |-> 0, qlen |-> 0, tok |-> "", isGroup |-> TRUE]]
      [] id = ".ping link" ->
            [isCommand |-> TRUE, command |-> "ping",
             args |-> [n |-> 1, qlen |-> 19, tok |-> "link", isGroup |-> TRUE]]
      [] id = ".ai long300" ->
            [isCommand |-> TRUE, command |-> "ai",
             args |-> [n |-> 1, qlen |-> 296, tok |-> "hello", isGroup |-> TRUE]]
      [] OTHER ->
            [isCommand |-> FALSE, command |-> "",
             args |-> [n |-> 0, qlen |-> 0, tok |-> "", isGroup |-> TRUE]]

\* variant: the handler goes on whatever the engine answered
runDefenseModulesFailOpen(r) == FALSE

\* MessageHandler.runDefenseModules on the engine's answer r: result.blocked
runDefenseModules(r) == r.module # "none"

\* a group message of user u that is a command
handleCommandInGroup(u, id, h, tx) ==
    LET info == extractMessageInfo(id)
        silent == [NoLast EXCEPT !.user = u, !.cmd = resolve(info.command)]
    IN
    /\ info.isCommand
    /\ UNCHANGED <<protected, enabled, maxLength, commands, aliases, declared, pending, kicked, warnEvents, broadcasting>>
    /\ IF isBlacklisted(u)
       THEN /\ lastV' = [NoLastV EXCEPT !.user = u, !.msg = id]
            /\ last' = silent
            /\ UNCHANGED commandFrame
            /\ UNCHANGED <<warned, muted, violations, messageTracker, tracked, lastIndex>>
       ELSE IF isDisabled(u) \/ (botMode = "SELF" /\ ~isAuthor(u))
       THEN /\ lastV' = [NoLastV EXCEPT !.user = u, !.msg = id]
            /\ last' = [silent EXCEPT !.sent = <<IF isDisabled(u) THEN "disabled"
                                                 ELSE "self_mode">>]
            /\ errorLog' = IF tx THEN errorLog ELSE logError(errorLog)
            /\ UNCHANGED <<owners, blacklisted, disabled, botMode, cooldowns,
                           globalCooldowns, commandUsage, defenseMode, groupMode,
                           now, inserted>>
            /\ UNCHANGED <<warned, muted, violations, messageTracker, tracked, lastIndex>>
       ELSE IF "g1" \notin protected
       THEN /\ lastV' = [NoLastV EXCEPT !.user = u, !.msg = id]
            /\ last' = silent
            /\ UNCHANGED commandFrame
            /\ UNCHANGED <<warned, muted, violations, messageTracker, tracked, lastIndex>>
       ELSE IF isMuted(u)
       THEN /\ lastV' = [NoLastV EXCEPT !.user = u, !.msg = id, !.deleted = TRUE]
            /\ last' = silent
            /\ UNCHANGED commandFrame
            /\ UNCHANGED <<warned, muted, violations, messageTracker, tracked, lastIndex>>
       ELSE IF isAuthorOrOwner(u)
       THEN \* the engine does not check the message
            /\ lastV' = [NoLastV EXCEPT !.user = u, !.msg = id]
            /\ muted' = [muted EXCEPT ![u] = 0]
            /\ UNCHANGED <<warned, violations, messageTracker, tracked, lastIndex>>
            /\ execute(u, info.command, info.args, h, tx)
       ELSE \E r \in {runModules(ModuleOrder, u, id, 1,
                                 [lastIndex |-> lastIndex, messages |-> messageTracker[u],
                                  pushed |-> FALSE])} :
            \E e \in {handleViolation(r.module, u, r.verdict, tx)} :
            /\ lastV' = [NoLastV EXCEPT
                           !.user = u, !.msg = id,
                           !.ran = IF r.module = "none" THEN <<>> ELSE <<r.module>>,
                           !.severity = r.verdict.severity,
                           !.mode = IF r.module = "none" THEN "none" ELSE modeOf("g1"),
                           !.action = e.action, !.deleted = e.deleted,
                           !.kicks = e.kicks, !.warnCount = e.warnCount,
                           !.notice = e.notice, !.blocked = r.module # "none",
                           !.checked = TRUE]
            /\ warned' = e.warned
            /\ muted' = [e.muted EXCEPT ![u] = IF e.muted[u] = muted[u] THEN 0 ELSE @]
            /\ violations' = e.violations
            /\ lastIndex' = r.st.lastIndex
            /\ messageTracker' =
                  [messageTracker EXCEPT ![u] = IF e.cleared THEN <<>> ELSE r.st.messages]
            /\ tracked' =
                  [tracked EXCEPT ![u] = IF e.cleared THEN <<>>
                                         ELSE IF r.st.pushed THEN Append(@, now) ELSE @]
            /\ IF runDefenseModules(r)
               THEN last' = silent /\ UNCHANGED commandFrame
               ELSE execute(u, info.command, info.args, h, tx)

(***************************************************************************)
(* Commands sent in the protected group by a member who is promoted and    *)
(* demoted, with and without a link or an oversized argument, while the    *)
(* link module is switched on and off.                                     *)
(***************************************************************************)
CommandMessages == {".ping", ".ping link", ".ai long300"}

NextGroupCommand ==
    \/ \E id \in CommandMessages, h \in {"ok", "throw"} :
          /\ Bounded(MaxUsage, MaxErrors, h, TRUE)
          /\ BoundedDefense(MaxViolations, MaxTracked)
          /\ handleCommandInGroup("u1", id, h, TRUE)
    \/ addProtected("g1")
    \/ addOwner("u1") \/ removeOwner("u1")
    \/ \E value \in BOOLEAN : updateGroupSetting("antiLink", value)

SpecGroupCommand == Init /\ [][NextGroupCommand]_vars

\* C34: in the protected group the defense engine sees a member's command
\* message before the command handling does.  When the engine blocks the
\* message nothing of the dispatch happens (no middleware step, no handler,
\* no reply, cooldowns, rate window and statistics unchanged); when a
\* member's command is dispatched the engine has checked the message and
\* has not blocked it
C34_DefenseFirst ==
    [][ /\ (lastV'.msg \in CommandMessages /\ lastV'.blocked) =>
              /\ last'.steps = <<>> /\ last'.sent = <<>> /\ ~last'.result
              /\ UNCHANGED <<cooldowns, globalCooldowns, inserted, commandUsage, errorLog>>
        /\ (lastV'.msg \in CommandMessages /\ last'.steps # <<>>
              /\ ~isAuthorOrOwner(last'.user)) =>
              lastV'.checked /\ ~lastV'.blocked ]_vars

\* a member's ping command carrying a link was blocked by the link module
C34_Witness ==
    /\ lastV.msg = ".ping link" /\ lastV.user = "u1"
    /\ lastV.blocked /\ lastV.ran = <<"antiLink">>
    /\ last.cmd = "ping" /\ last.steps = <<>>

\* C35: a request the rate budget rejects is not recorded and does not
\* lengthen the block.  A dispatch of a non-privileged user that reaches the
\* rate step is rejected only with 10 passes in the 60 seconds before it,
\* the rejection leaves the window as its pruning leaves it and records
\* nothing; with fewer than 10 passes in those 60 seconds the dispatch
\* passes the step, however many were rejected before
C35_BudgetRecovers ==
    [][ LET u == last'.user
        IN  (u # "" /\ ~isAuthorOrOwner(u) /\ Len(last'.steps) >= 4) =>
              /\ last'.steps = <<"auth", "cooldown", "validation", "rate">> =>
                    /\ globalCooldowns'[u] = filterRecent(globalCooldowns[u], now, timeWindow)
                    /\ Len(globalCooldowns'[u]) <= Len(globalCooldowns[u])
                    /\ inserted' = inserted
                    /\ countWithin(inserted[u], now - timeWindow, now) >= maxRequests
              /\ countWithin(inserted[u], now - timeWindow, now) < maxRequests =>
                    /\ Len(last'.steps) >= 5
                    /\ inserted'[u] = Append(inserted[u], now)
      ]_vars

\* C35 witness: the member's first ten passes filled the budget; the
\* eleventh request to pass the rate step did so later, when the window had
\* moved on
C35_Witness ==
    /\ last.user = "u1" /\ Len(last.steps) >= 5
    /\ Len(inserted["u1"]) >= 11
    /\ inserted["u1"][10] - inserted["u1"][1] < timeWindow
    /\ inserted["u1"][10] < now
    /\ inserted["u1"][11] = now

(***************************************************************************)
(* Commands sent under their aliases: a member who is promoted and demoted *)
(* and the author ask for download-music and info-grup by alias, with and  *)
(* without a valid argument, while time passes.                            *)
(***************************************************************************)
AliasArgs ==
    { [n |-> 0, qlen |-> 0, tok |-> "", isGroup |-> TRUE],
      [n |-> 1, qlen |-> 14, tok |-> "https://x.io/a", isGroup |-> TRUE] }

NextAlias ==
    \/ \E u \in {"a", "u1"}, name \in {"music", "dlmusic", "groupinfo", "info-grup"},
          args \in AliasArgs, h \in {"ok", "throw"} :
          Bounded(MaxUsage, MaxErrors, h, TRUE) /\ Dispatch(u, name, args, h, TRUE)
    \/ addOwner("u1") \/ removeOwner("u1")
    \/ Advance(30000, MaxRateTime)

SpecAlias == Init /\ [][NextAlias]_vars

\* C36: a command invoked through an alias goes through the chain of its
\* canonical name: whoever sends it, with whatever arguments and handler
\* outcome, a step is the dispatch of the alias exactly if it is the
\* dispatch of the canonical name (same role decision, same cooldown entry
\* read and written, same validation, same replies and statistics)
C36_AliasSameChain ==
    [][ \A u \in {"a", "u1"}, n \in aliasNames, args \in AliasArgs, h \in {"ok", "throw"} :
            Dispatch(u, n, args, h, TRUE) <=> Dispatch(u, aliasOf(n), args, h, TRUE) ]_vars

\* C36 witness: download-music, only ever asked for by alias, was run for
\* the member and is on cooldown; the member's next request by alias has
\* been refused by the cooldown step
C36_Witness ==
    /\ last.user = "u1" /\ last.cmd = "download-music"
    /\ last.steps = <<"auth", "cooldown">> /\ last.remaining > 0
    /\ commandUsage["download-music"] > 0
    /\ cooldowns["u1"]["download-music"] > now

(***************************************************************************)
(* Periodic housekeeping.  The interval callback of CooldownMiddleware     *)
(* runs cleanup() and starts clearExpiredCooldowns(); the latter (like     *)
(* CleanupManager.cleanExpiredCooldowns) walks a snapshot of the cooldown  *)
(* entries and awaits db.removeCooldown for each entry whose snapshot      *)
(* timestamp lies before the time taken at its start.                      *)
(***************************************************************************)
\* const maxAge = 3600000 in CooldownMiddleware.cleanup
maxAge == 3600000

\* CooldownMiddleware.cleanup on the rate windows: entries younger than maxAge stay
cleanup(windows) == [u \in Users |-> filterRecent(windows[u], now, maxAge)]

\* the order in which Object.entries(cooldowns) yields the users
SweepUsers == <<"a", "u1", "u2">>

\* the entries of user u the sweep started at time t removes: timestamp < now
expiredOf(cds, u, t) == {c \in Commands : cds[u][c] # 0 /\ cds[u][c] < t}

\* the orders in which Object.entries(commands) can yield the entries S
Orders(S) == {o \in [1..Cardinality(S) -> S] : \A i, j \in 1..Cardinality(S) : o[i] = o[j] => i = j}

\* the first user from position i on with an entry to remove, 0 for none
nextSwept(cds, i, t) ==
    LET S == {j \in i..Len(SweepUsers) : expiredOf(cds, SweepUsers[j], t) # {}}
    IN  IF S = {} THEN 0 ELSE CHOOSE j \in S : \A k \in S : j <= k

\* the sweep of task t, started at time at, goes on from user position i up to
\* its next await: the entries of the next user with expired ones are listed,
\* the first is deleted and db.write() awaited; with no such user it ends
sweepFrom(t, i, at) ==
    LET j == nextSwept(cooldowns, i, at)
    IN  IF j = 0
        THEN /\ pending' = [pending EXCEPT ![t] = Idle]
             /\ UNCHANGED cooldowns
        ELSE \E order \in Orders(expiredOf(cooldowns, SweepUsers[j], at)) :
                /\ cooldowns' = [cooldowns EXCEPT ![SweepUsers[j]][order[1]] = 0]
                /\ pending' = [pending EXCEPT ![t] =
                                  [Idle EXCEPT !.kind = "sweep", !.pc = "removeCooldown",
                                               !.user = SweepUsers[j], !.at = at,
                                               !.count = j, !.todo = Tail(order)]]

sweepRest == <<owners, blacklisted, disabled, botMode, commandUsage, errorLog, defenseMode, groupMode, now, inserted>>

\* the interval callback: cleanup(), then clearExpiredCooldowns() up to its
\* first await
clearExpiredCooldowns(t) ==
    /\ pending[t] = Idle
    /\ globalCooldowns' = cleanup(globalCooldowns)
    /\ sweepFrom(t, 1, now)
    /\ last' = NoLast /\ lastV' = NoLastV
    /\ UNCHANGED <<warned, muted, kicked, warnEvents, broadcasting>>
    /\ UNCHANGED moderationRest /\ UNCHANGED sweepRest

\* clearExpiredCooldowns after an await of db.removeCooldown: the next entry
\* of the list taken before is removed, whatever it holds by now
removeCooldownNext(t) ==
    /\ pending[t].kind = "sweep" /\ pending[t].pc = "removeCooldown"
    /\ IF pending[t].todo # <<>>
       THEN /\ cooldowns' = [cooldowns EXCEPT ![pending[t].user][Head(pending[t].todo)] = 0]
            /\ pending' = [pending EXCEPT ![t].todo = Tail(@)]
       ELSE sweepFrom(t, pending[t].count + 1, pending[t].at)
    /\ last' = NoLast /\ lastV' = NoLastV
    /\ UNCHANGED globalCooldowns
    /\ UNCHANGED <<warned, muted, kicked, warnEvents, broadcasting>>
    /\ UNCHANGED moderationRest /\ UNCHANGED sweepRest

MaxSweepUsage == 3
MaxSweepTime == 5400000

(***************************************************************************)
(* One member sending ping and ai commands while the housekeeping runs and *)
(* half hours pass.                                                        *)
(***************************************************************************)
NextSweep ==
    \/ \E name \in {"ping", "ai"}, args \in RateArgs :
          Bounded(MaxSweepUsage, MaxErrors, "ok", TRUE) /\ executeStart(1, "u1", name, args, TRUE)
    \/ Bounded(MaxSweepUsage, MaxErrors, "ok", TRUE) /\ executeFinish(1, "ok", TRUE)
    \/ clearExpiredCooldowns(2)
    \/ removeCooldownNext(2)
    \/ Advance(1800000, MaxSweepTime)

SpecSweep == Init /\ [][NextSweep]_vars

\* C37 as stated: a step of the housekeeping changes the outcome of no later
\* check: every cooldown check and every rate-budget check answers after the
\* step what it answered before it
C37_AsStated ==
    [][ (clearExpiredCooldowns(2) \/ removeCooldownNext(2)) =>
            \A u \in Users :
                /\ \A c \in Commands :
                      isOnCooldown(cooldowns', now, u, c) = isOnCooldown(cooldowns, now, u, c)
                /\ Len(filterRecent(globalCooldowns'[u], now, timeWindow))
                       = Len(filterRecent(globalCooldowns[u], now, timeWindow)) ]_vars

\* C38 as stated: the mode of a group, by which its violations are mapped to
\* actions, stays what the last successful setDefenseMode for that group made
\* it: no other step changes it
C38_AsStated ==
    [][ \A g \in Groups :
            groupMode'[g] # groupMode[g] => \E mode \in Modes : setDefenseMode(g, mode) ]_vars

(***************************************************************************)
(* BroadcastService.  A call of broadcast is a task: pc names the await it *)
(* is waiting at, count the share targets still to be served, todo the     *)
(* outcome of the targets served so far.  The whole body of broadcast lies *)
(* in one try block whose catch clears this.broadcasting.                  *)
(***************************************************************************)
broadcastRest == <<warned, muted, kicked, warnEvents>>

\* what a call of broadcast left unanswered or answered
broadcastOutcome(text) == [NoLast EXCEPT !.user = "a", !.cmd = "broadcast", !.sent = <<text>>]

\* broadcast(bot, message, authorJid) with n share targets, up to its first
\* await: the throw of a call that finds a broadcast in progress, or no
\* share target, is caught by the function's own catch block
broadcast(t, n) ==
    /\ pending[t] = Idle
    /\ IF broadcasting
       THEN /\ broadcasting' = FALSE
            /\ last' = broadcastOutcome("Broadcast already in progress")
            /\ UNCHANGED pending
       ELSE IF n = 0
       THEN /\ broadcasting' = FALSE
            /\ last' = broadcastOutcome("No share targets configured")
            /\ UNCHANGED pending
       ELSE /\ broadcasting' = TRUE
            /\ last' = broadcastOutcome("BROADCAST STARTED")
            /\ pending' = [pending EXCEPT ![t] =
                              [Idle EXCEPT !.kind = "broadcast", !.pc = "sendStarted",
                                           !.user = "a", !.count = n]]
    /\ lastV' = NoLastV
    /\ UNCHANGED broadcastRest /\ UNCHANGED moderationRest /\ UNCHANGED commandFrame

\* the targets are served: result.endTime, this.broadcasting = false, and
\* sendReport is awaited
broadcastEnd(t, outcomes) ==
    /\ broadcasting' = FALSE
    /\ pending' = [pending EXCEPT ![t].pc = "sendReport", ![t].count = 0, ![t].todo = outcomes]

\* the notice to the author was sent (tx) or sendMessage threw: the first
\* target is next, or the catch block ends the call
broadcastStarted(t, tx) ==
    /\ pending[t].kind = "broadcast" /\ pending[t].pc = "sendStarted"
    /\ IF tx
       THEN /\ pending' = [pending EXCEPT ![t].pc = "sendMessage"]
            /\ UNCHANGED broadcasting
       ELSE /\ pending' = [pending EXCEPT ![t] = Idle]
            /\ broadcasting' = FALSE
    /\ last' = NoLast /\ lastV' = NoLastV
    /\ UNCHANGED broadcastRest /\ UNCHANGED moderationRest /\ UNCHANGED commandFrame

\* the message to a target was sent (success, then the sleep between
\* messages) or failed (the inner catch; the next target or the end)
broadcastSent(t, tx) ==
    /\ pending[t].kind = "broadcast" /\ pending[t].pc = "sendMessage"
    /\ IF tx
       THEN /\ pending' = [pending EXCEPT ![t].pc = "sleep", ![t].todo = Append(@, "success")]
            /\ UNCHANGED broadcasting
       ELSE IF pending[t].count = 1
       THEN broadcastEnd(t, Append(pending[t].todo, "failed"))
       ELSE /\ pending' = [pending EXCEPT ![t].count = @ - 1, ![t].todo = Append(@, "failed")]
            /\ UNCHANGED broadcasting
    /\ last' = NoLast /\ lastV' = NoLastV
    /\ UNCHANGED broadcastRest /\ UNCHANGED moderationRest /\ UNCHANGED commandFrame

\* the sleep between two messages is over: the next target or the end
broadcastSlept(t) ==
    /\ pending[t].kind = "broadcast" /\ pending[t].pc = "sleep"
    /\ IF pending[t].count = 1
       THEN broadcastEnd(t, pending[t].todo)
       ELSE /\ pending' = [pending EXCEPT ![t].pc = "sendMessage", ![t].count = @ - 1]
            /\ UNCHANGED broadcasting
    /\ last' = NoLast /\ lastV' = NoLastV
    /\ UNCHANGED broadcastRest /\ UNCHANGED moderationRest /\ UNCHANGED commandFrame

\* sendReport returned (the result is returned) or threw (the catch block)
broadcastReported(t, tx) ==
    /\ pending[t].kind = "broadcast" /\ pending[t].pc = "sendReport"
    /\ pending' = [pending EXCEPT ![t] = Idle]
    /\ broadcasting' = IF tx THEN broadcasting ELSE FALSE
    /\ last' = IF tx THEN broadcastOutcome("BROADCAST REPORT") ELSE NoLast
    /\ lastV' = NoLastV
    /\ UNCHANGED broadcastRest /\ UNCHANGED moderationRest /\ UNCHANGED commandFrame

MaxTargets == 2

(***************************************************************************)
(* Broadcast requests arriving while earlier ones are being served.        *)
(***************************************************************************)
NextBroadcast ==
    \/ \E t \in Tasks, n \in 0..MaxTargets : broadcast(t, n)
    \/ \E t \in Tasks, tx \in BOOLEAN : broadcastStarted(t, tx)
    \/ \E t \in Tasks, tx \in BOOLEAN : broadcastSent(t, tx)
    \/ \E t \in Tasks : broadcastSlept(t)
    \/ \E t \in Tasks, tx \in BOOLEAN : broadcastReported(t, tx)

SpecBroadcast == Init /\ [][NextBroadcast]_vars

\* a call of broadcast that has set the flag and not yet served its last target
inProgress(t) ==
    pending[t].kind = "broadcast" /\ pending[t].pc \in {"sendStarted", "sendMessage", "sleep"}

\* C39 as stated: at most one broadcast is in progress, and while one is in
\* progress the flag is set, whatever requests were rejected meanwhile
C39_AsStated ==
    /\ Cardinality({t \in Tasks : inProgress(t)}) <= 1
    /\ (\E t \in Tasks : inProgress(t)) => broadcasting

====
